---------------------------- MODULE Spec2Model ----------------------------
(***************************************************************************)
(* Model of the T900 data-rate test engine (src/t900_viewmodel.py,         *)
(* class T900DataRateViewModel): the lifecycle calls start_test/stop_test  *)
(* made on the GUI thread, and the sender, receiver and monitor worker     *)
(* threads they spawn.                                                     *)
(*                                                                         *)
(* Time is a discrete clock `now`; one tick stands for 0.5 s.  Threads run *)
(* at full speed: time passes only while every live thread is blocked in   *)
(* a sleep or a join.  time.sleep(d) with d a whole number of ticks wakes  *)
(* exactly d ticks later.  The sub-tick sleeps of the code (0.1 s monitor   *)
(* poll, 1 ms receiver poll) take no ticks: a polling thread that has      *)
(* something to do does it before the clock advances.                      *)
(*                                                                         *)
(* A worker thread is identified by the number of the run that spawned it, *)
(* because the engine overwrites its thread handles on every start_test    *)
(* while a thread whose join timed out keeps running.                      *)
(*                                                                         *)
(* The serial ports are taken to be open for the whole behaviour (the      *)
(* connect/disconnect dialogs are not modelled).  Every critical section   *)
(* under stats_mutex is one atomic step, and so is the part of start_test  *)
(* and of the monitor between two blocking calls.                          *)
(*                                                                         *)
(* The user may call start_test and stop_test at any moment.  The          *)
(* configurations start_test accepts in a behaviour are one of the         *)
(* sequences in Scripts, fixed by the initial state.  A call that the      *)
(* engine finalizes in the tick it started in stores an elapsed time of 0. *)
(*                                                                         *)
(* lastCall records what the last step was when it was a lifecycle call;   *)
(* captured_end, deadline_seen, late_frame, drain_missed, user_stop,       *)
(* port_errors and reported_corrupt are history variables the properties   *)
(* at the end of the module read.  None of them is read by the engine.     *)
(***************************************************************************)
EXTENDS Integers, Sequences, FiniteSets, TLC

(***************************************************************************)
(* Bounds of the model.                                                    *)
(***************************************************************************)
MaxTime == 6          \* last clock value explored
MaxRuns == 2          \* accepted start_test calls per behaviour
NumReceivers == 2     \* num_receivers given to the constructor
MaxTarget == 2        \* largest target packet count offered to start_test
MaxLinkDelay == 1     \* ticks a written frame may stay in the air

(***************************************************************************)
(* Program constants (times in ticks of 0.5 s).                            *)
(***************************************************************************)
None == -1            \* Python's None for optional numbers and handles
packet_header_size == 44
JoinTimeout == 4      \* thread.join(timeout=2.0)
ProbeWait == 1        \* time.sleep(0.5) in the monitor, duration mode
GraceExtension == 1   \* receiver_grace_period_end = time.time() + 0.5
LatencyCap == 1000    \* deque(maxlen=1000)
PayloadByte == 88     \* b'X'

Receivers == 1..NumReceivers
Runs == 1..MaxRuns

\* Python truthiness of an optional number: None and 0 are false.
Truthy(x) == x # None /\ x # 0

(***************************************************************************)
(* Exact rationals n/d (d > 0), kept normalised, for the code's float      *)
(* divisions.                                                              *)
(***************************************************************************)
RECURSIVE GCD(_, _)
GCD(a, b) == IF b = 0 THEN a ELSE GCD(b, a % b)

Abs(x) == IF x < 0 THEN -x ELSE x

Rat(n, d) ==
    IF n = 0 THEN [n |-> 0, d |-> 1]
    ELSE LET g == GCD(Abs(n), d) IN [n |-> n \div g, d |-> d \div g]

RatInt(k) == [n |-> k, d |-> 1]
RatAdd(x, k) == Rat(x.n + k * x.d, x.d)
RatDiv(x, k) == Rat(x.n, x.d * k)
RatMul(x, k) == Rat(x.n * k, x.d)
RatSum(x, y) == Rat(x.n * y.d + y.n * x.d, x.d * y.d)
RatQuot(x, y) == Rat(x.n * y.d, x.d * y.n)
RatZero == RatInt(0)
NoRate == [n |-> 0, d |-> 0]      \* a rate field still holding None

RECURSIVE SumSeq(_)
SumSeq(s) == IF s = <<>> THEN 0 ELSE Head(s) + SumSeq(Tail(s))

(***************************************************************************)
(* PacketCodec: _create_packet and _validate_packet.                       *)
(***************************************************************************)
\* A plausible slip: '<I' for '>I', least significant byte first.
PackU32LittleEndian(n) ==
    << n % 256, (n \div 256) % 256, (n \div 65536) % 256, (n \div 16777216) % 256 >>

\* struct.pack('>I', n): four bytes, most significant first.
PackU32(n) ==
    << (n \div 16777216) % 256, (n \div 65536) % 256, (n \div 256) % 256, n % 256 >>

UnpackU32(b) == b[1] * 16777216 + b[2] * 65536 + b[3] * 256 + b[4]

\* struct.pack('>d', t): eight bytes.  The clock is a whole number of ticks
\* below 2^16, encoded here in the low two bytes.
PackTime(t) == << 0, 0, 0, 0, 0, 0, (t \div 256) % 256, t % 256 >>

UnpackTime(b) == b[7] * 256 + b[8]

\* hashlib.sha256(payload).digest(): 32 bytes determined by the payload alone,
\* and different for different payloads of up to 32 bytes (digest byte i
\* carries payload byte i).
Sha256(p) ==
    [i \in 1..32 |->
        ((IF i <= Len(p) THEN p[i] + 1 ELSE 0) + 31 * i + Len(p)) % 256]

Payload(total_size) == [k \in 1..(total_size - packet_header_size) |-> PayloadByte]

_create_packet(sequence, payload, timestamp) ==
    PackU32(sequence) \o PackTime(timestamp) \o Sha256(payload) \o payload

\* The verdict of _validate_packet on `packet` read at time `t`.
PacketValid(packet) ==
    /\ Len(packet) >= packet_header_size
    /\ Sha256(SubSeq(packet, 45, Len(packet))) = SubSeq(packet, 13, 44)

PacketLatency(packet, t) == (t - UnpackTime(SubSeq(packet, 5, 12))) * 1000

\* latency_container.append(latency) on a deque(maxlen=1000).
DequeAppend(dq, x) ==
    IF Len(dq) >= LatencyCap THEN Tail(dq) \o <<x>> ELSE dq \o <<x>>

(***************************************************************************)
(* TestConfig values offered to start_test.                                *)
(***************************************************************************)
MkConfig(s, w, l, t) ==
    [total_size |-> s, write_freq |-> w, test_length |-> l, target_packets |-> t]

MinSize == packet_header_size + 1
LongInterval == JoinTimeout + 1
DurationLen == 2 * ProbeWait

CountConfig(w, t) == MkConfig(MinSize, w, None, t)
DurationConfig == MkConfig(MinSize, 1, DurationLen, None)
\* manual mode: neither a duration nor a target
ManualConfig == MkConfig(MinSize, LongInterval, None, None)
\* both a duration and a target
BothConfig == MkConfig(MinSize, 1, DurationLen, 1)
\* both a duration and a target, the duration over before the target is sent
ShortOfTargetConfig ==
    MkConfig(MinSize, LongInterval, DurationLen, MaxTarget + 1)
\* interval not positive
ZeroIntervalConfig == MkConfig(MinSize, 0, None, 1)
\* packet too small for header + 1
TooSmallConfig == MkConfig(packet_header_size, 1, None, 1)

Configs ==
    { CountConfig(w, t) : w \in {1, LongInterval}, t \in 1..MaxTarget }
    \cup { DurationConfig, ManualConfig, BothConfig, ZeroIntervalConfig,
           TooSmallConfig }

\* The sequences of configurations the user has accepted one after the other
\* in a behaviour: every single configuration, and the restarts in which the
\* first run can leave a worker behind (a sender asleep for LongInterval, a
\* monitor in a drain wait of LongInterval) or leaves none.
FirstRuns == { ManualConfig, CountConfig(LongInterval, 1), CountConfig(1, 1) }
SecondRuns == { CountConfig(1, 1), DurationConfig }

Scripts ==
    { <<c>> : c \in Configs }
    \cup { <<a, b>> : a \in FirstRuns, b \in SecondRuns }

VARIABLES
    now,                    \* time.time()
    run,                    \* number of accepted start_test calls so far
    test_running,
    test_end_time,
    target_packets,
    receiver_grace_period_end,
    current_write_interval,
    active_receivers,
    test_thread,            \* run number of the thread the handle refers to
    receiver_threads,
    monitor_thread,
    stats,
    receiver_stats,
    sender,                 \* sender thread of each run: locals and position
    receiver,               \* receiver threads of each run
    monitor,                \* monitor thread of each run
    wire,                   \* per receive channel: writes still in the air
    in_waiting,             \* per receive channel: bytes readable at the port
    main,                   \* the GUI thread: position inside stop_test
    pending_stops,          \* stop_test calls queued by QTimer.singleShot
    script,                 \* the configurations start_test will accept, in order
    feed,                   \* bytes a test harness will still write to receive port 1
    codec,                  \* a frame a test harness takes through the codec
    qt,                     \* the engine inside the Qt window (T900DataRateTestQt)
    tk,                     \* the engine inside the Tk window (T900DataRateTest)
    locks,                  \* a count-mode run statement by statement around stats_mutex
    lastCall,               \* what the last step was, if it was a call on the GUI thread
    captured_end,           \* history: end_time as the monitor captured it in this run
    deadline_seen,          \* history: when the monitor saw the deadline in this run
    late_frame,             \* history: channels a frame reached after that moment
    drain_missed,           \* history: a frame reached a port after the drain window of this run
    user_stop,              \* history: the user's Stop has ended this run
    port_errors,            \* history: workers whose port raised in this run (0: the sender)
    reported_corrupt,       \* history: "Overall Corrupt Packets" as stop_test logged it
    stop_log                \* history: the entries stop_test wrote to the log for this run

vars == << now, run, test_running, test_end_time, target_packets,
           receiver_grace_period_end, current_write_interval, active_receivers,
           test_thread, receiver_threads, monitor_thread, stats, receiver_stats,
           sender, receiver, monitor, wire, in_waiting, main, pending_stops,
           script, feed, codec, qt, tk, locks, lastCall, captured_end, deadline_seen, late_frame,
           drain_missed, user_stop, port_errors, reported_corrupt, stop_log >>

engineFields == << test_running, test_end_time, target_packets,
                   receiver_grace_period_end, current_write_interval,
                   active_receivers >>
handles == << test_thread, receiver_threads, monitor_thread >>
workers == << sender, receiver, monitor >>
channels == << wire, in_waiting >>
history == << captured_end, deadline_seen, late_frame, drain_missed, user_stop,
             port_errors, reported_corrupt, stop_log >>
harness == << script, feed, codec, qt, tk, locks >>


(***************************************************************************)
(* Initial state: the engine as __init__ leaves it, no thread spawned.     *)
(***************************************************************************)
_create_empty_receiver_stats ==
    [ bytes_received_total |-> 0, bytes_received_valid |-> 0,
      packets_received |-> 0, packets_corrupt |-> 0,
      latency_samples |-> <<>>,
      valid_rate_bps |-> NoRate, packet_loss |-> NoRate, avg_latency |-> NoRate ]

InitStats ==
    [ bytes_sent |-> 0, bytes_received |-> RatZero,
      bytes_received_valid |-> RatZero, bytes_received_total |-> RatZero,
      packets_sent |-> 0, packets_received |-> RatZero,
      packets_corrupt |-> RatZero, latency_samples |-> <<>>,
      start_time |-> None, end_time |-> None, elapsed_time |-> None,
      data_rate_total_bps |-> NoRate, data_rate_valid_bps |-> NoRate,
      send_rate_bps |-> NoRate ]

NoConfig == MkConfig(0, 0, None, None)

IdleSender ==
    [ pc |-> "none", cfg |-> NoConfig, sequence |-> 0, start_time |-> 0,
      next_packet_time |-> 0,
      last_write |-> None ]   \* history: the clock at the thread's last write
IdleReceiver ==
    [ pc |-> "none", size |-> 0, buffer |-> <<>>,
      closed |-> FALSE ]   \* the port object passed as conn has been closed
IdleMonitor ==
    [ pc |-> "none", use_packet_count |-> FALSE, wake |-> 0 ]
\* A thread that has returned: its locals are gone.
DeadSender == [IdleSender EXCEPT !.pc = "done"]
DeadReceiver == [IdleReceiver EXCEPT !.pc = "done"]
DeadMonitor == [IdleMonitor EXCEPT !.pc = "done"]
IdleMain == [ pc |-> "idle", idx |-> 0, deadline |-> 0 ]
IdleCodec ==
    [ pc |-> "idle", sequence |-> 0, payload |-> <<>>, packet |-> <<>>,
      tampered |-> FALSE ]

(***************************************************************************)
(* The engine inside the Qt window (t900_data_rate_test_qt.py), with all   *)
(* its ports connected.  It keeps its own clock, qt.now, in the same ticks. *)
(***************************************************************************)
QtNumReceivers == 2   \* receive ports taken into the model (self.num_receivers)
QtCountWait == 2      \* wait_timeout = 1.0; packet_count_wait_end = time.time() + 1.0
QtReceivers == 1..QtNumReceivers

QtIdleThread == [ pc |-> "none" ]
QtDeadThread == [ pc |-> "done" ]
QtIdleSender ==
    [ pc |-> "none", sequence |-> 0, start_time |-> 0, next_packet_time |-> 0 ]
QtDeadSender == [QtIdleSender EXCEPT !.pc = "done"]
QtIdleMonitor == [ pc |-> "none", use_packet_count |-> FALSE, wake |-> 0 ]
QtDeadMonitor == [QtIdleMonitor EXCEPT !.pc = "done"]

QtInitStats ==
    [ bytes_sent |-> 0, packets_sent |-> 0, bytes_received_total |-> 0,
      packets_received |-> 0, start_time |-> None, end_time |-> None,
      elapsed_time |-> None, data_rate_total_bps |-> NoRate,
      send_rate_bps |-> NoRate ]

\* The window after __init__ and after every port has been connected.
QtConstructed ==
    [ now |-> 1, cfg |-> NoConfig, test_running |-> FALSE,
      target_packets |-> None, test_end_time |-> None,
      receiver_grace_period_end |-> None, packet_count_wait_end |-> None,
      stats |-> QtInitStats,
      sender |-> QtIdleSender,
      receiver |-> [i \in QtReceivers |-> QtIdleThread],
      monitor |-> QtIdleMonitor,
      in_waiting |-> [i \in QtReceivers |-> 0],
      main |-> IdleMain, pending_stops |-> 0,
      start_btn |-> TRUE, stop_btn |-> FALSE,
      count_stop |-> "none",   \* history: the stop the count-mode monitor queued
      last_start |-> "none" ]  \* history: how the last _start_test call ended

(***************************************************************************)
(* The engine inside the Tk window (apps/data_rate/tk), both ports         *)
(* connected and the direction set to "Bidirectional".  Direction 1 is the *)
(* stats key '' (sender port to receiver port), direction 2 the key '_2'.  *)
(***************************************************************************)
TkMaxRuns == 1        \* accepted _start_test calls per behaviour
TkCountWait == 2      \* wait_timeout = 1.0; packet_count_wait_end = initial_end_time + 1.0
TkGraceJoin == 3      \* receive_thread.join(timeout=1.5)
TkDirections == {1, 2}
TkOther(d) == 3 - d

TkIdleSender ==
    [ pc |-> "none", sequence |-> 0, end_time |-> None, next_packet_time |-> 0 ]
TkDeadSender == [TkIdleSender EXCEPT !.pc = "done"]
TkIdleReceiver == [ pc |-> "none", end_time |-> None ]
TkDeadReceiver == [TkIdleReceiver EXCEPT !.pc = "done"]
TkIdleMonitor == [ pc |-> "none", wake |-> 0 ]
TkDeadMonitor == [TkIdleMonitor EXCEPT !.pc = "done"]
TkIdleMain == [ pc |-> "idle", deadline |-> 0, initial_end_time |-> None ]

TkInitStats ==
    [ bytes_sent |-> [d \in TkDirections |-> 0],
      packets_sent |-> [d \in TkDirections |-> 0],
      bytes_received_total |-> [d \in TkDirections |-> 0],
      bytes_received_valid |-> [d \in TkDirections |-> 0],
      packets_received |-> [d \in TkDirections |-> 0],
      packets_corrupt |-> [d \in TkDirections |-> 0],
      start_time |-> None, end_time |-> None, elapsed_time |-> None,
      data_rate_total_bps_combined |-> NoRate,
      send_rate_bps_combined |-> NoRate ]

\* The window after __init__ and after both ports have been connected.
TkConstructed ==
    [ now |-> 1, cfg |-> NoConfig, test_running |-> FALSE,
      target_packets |-> None, test_end_time |-> None,
      receiver_grace_period_end |-> None,
      grace_period_data_received |-> FALSE,
      packet_count_wait_end |-> None,
      stats |-> TkInitStats,
      sender |-> [d \in TkDirections |-> TkIdleSender],
      receiver |-> [d \in TkDirections |-> TkIdleReceiver],
      monitor |-> TkIdleMonitor,
      in_waiting |-> [d \in TkDirections |-> << >>],  \* frames readable
      main |-> TkIdleMain, pending_stops |-> 0,
      start_button |-> TRUE, stop_button |-> FALSE,
      runs |-> 0,           \* _start_test calls accepted so far
      port_errors |-> {} ]  \* history: threads whose port raised in this run

\* The engine after __init__(NumReceivers) and set_active_receivers(count).
(***************************************************************************)
(* A count-mode run of the ViewModel on one receive channel, taken         *)
(* statement by statement where the threads lock and unlock stats_mutex:   *)
(* the sender, the receiver, the monitor, and the GUI thread in            *)
(* update_statistics.  stats_mutex is "free" or the thread that holds it.  *)
(***************************************************************************)
LocksIdle ==
    [ test_running |-> FALSE, stats_mutex |-> "free",
      packets_sent |-> 0, packets_received |-> 0, latency_samples |-> << >>,
      end_time |-> None, avg_latency |-> NoRate,
      in_waiting |-> 0,      \* whole frames readable at the receive port
      buffer |-> 0,          \* whole frames in the receiver's buffer
      sent |-> 0,            \* the monitor's local copy of packets_sent
      sender |-> "none", receiver |-> "none", monitor |-> "none",
      gui |-> "idle" ]

\* the locks view once start_test has spawned the three threads
LocksStarted ==
    [LocksIdle EXCEPT !.test_running = TRUE, !.sender = "loop",
                      !.receiver = "poll", !.monitor = "loop"]

Constructed(count) ==
    /\ now = 1
    /\ run = 0
    /\ test_running = FALSE
    /\ test_end_time = None
    /\ target_packets = None
    /\ receiver_grace_period_end = None
    /\ current_write_interval = None
    /\ active_receivers = count
    /\ test_thread = None
    /\ receiver_threads = [i \in Receivers |-> None]
    /\ monitor_thread = None
    /\ stats = InitStats
    /\ receiver_stats = [i \in Receivers |-> _create_empty_receiver_stats]
    /\ sender = [r \in Runs |-> IdleSender]
    /\ receiver = [r \in Runs |-> [i \in Receivers |-> IdleReceiver]]
    /\ monitor = [r \in Runs |-> IdleMonitor]
    /\ wire = [i \in Receivers |-> <<>>]
    /\ in_waiting = [i \in Receivers |-> <<>>]
    /\ main = IdleMain
    /\ pending_stops = 0
    /\ lastCall = "none"
    /\ captured_end = None
    /\ deadline_seen = None
    /\ late_frame = [i \in Receivers |-> FALSE]
    /\ drain_missed = FALSE
    /\ user_stop = FALSE
    /\ port_errors = {}
    /\ reported_corrupt = NoRate
    /\ stop_log = << >>

Init ==
    /\ Constructed(1)
    /\ qt = QtConstructed
    /\ tk = TkConstructed
    /\ locks = LocksIdle
    /\ script \in Scripts
    /\ feed = <<>>
    /\ codec = IdleCodec

(***************************************************************************)
(* Shared helpers.                                                         *)
(***************************************************************************)
\* _clear_serial_buffers: the input buffer of every open port is discarded.
_clear_serial_buffers == [i \in Receivers |-> <<>>]

ActiveStats(rs) == { i \in Receivers : i <= active_receivers }

RECURSIVE SumOver(_, _, _)
SumOver(rs, S, field) ==
    IF S = {} THEN 0
    ELSE LET i == CHOOSE x \in S : TRUE
         IN rs[i][field] + SumOver(rs, S \ {i}, field)

\* _recalculate_receiver_totals: the combined figures become the per-receiver
\* sums divided by the number of active receivers.
_recalculate_receiver_totals(st, rs) ==
    LET act == ActiveStats(rs)
        receiver_count == IF act = {} THEN 1 ELSE Cardinality(act)
        avg(field) == Rat(SumOver(rs, act, field), receiver_count)
    IN [ st EXCEPT !.packets_received = avg("packets_received"),
                   !.packets_corrupt = avg("packets_corrupt"),
                   !.bytes_received_total = avg("bytes_received_total"),
                   !.bytes_received_valid = avg("bytes_received_valid"),
                   !.bytes_received = avg("bytes_received_valid") ]

\* The counter reset start_test performs under stats_mutex.
ResetStats(st, t) ==
    [ st EXCEPT !.bytes_sent = 0, !.bytes_received = RatZero,
                !.bytes_received_valid = RatZero,
                !.bytes_received_total = RatZero,
                !.packets_sent = 0, !.packets_received = RatZero,
                !.packets_corrupt = RatZero, !.latency_samples = <<>>,
                !.start_time = t, !.end_time = None, !.elapsed_time = None ]

ResetReceiverStats(rs) == [i \in Receivers |-> _create_empty_receiver_stats]

(***************************************************************************)
(* start_test(config), called on the GUI thread.                           *)
(***************************************************************************)
\* A plausible slip: the payload byte is forgotten in the size check.
HeaderOnlyAllowed(c) == c.total_size < packet_header_size

\* "if config.total_size < self.packet_header_size + 1"
PacketTooSmall(c) == c.total_size < packet_header_size + 1

\* A plausible slip: the counters are reset before the running check.
StartWhileRunningResets ==
    /\ test_running
    /\ stats' = ResetStats(stats, now)
    /\ lastCall' = "start_running"
    /\ UNCHANGED << history, harness >>
    /\ UNCHANGED << now, run, engineFields, handles, receiver_stats,
                    workers, channels, main, pending_stops >>

StartRejectedRunning ==
    /\ test_running
    /\ lastCall' = "start_running"
    /\ UNCHANGED << history, harness >>
    /\ UNCHANGED << now, run, engineFields, handles, stats, receiver_stats,
                    workers, channels, main, pending_stops >>

StartRejectedSize(c) ==
    /\ ~test_running
    /\ PacketTooSmall(c)
    /\ lastCall' = "start_badsize"
    /\ UNCHANGED << history, harness >>
    /\ UNCHANGED << now, run, engineFields, handles, stats, receiver_stats,
                    workers, channels, main, pending_stops >>

StartAccepted(c) ==
    /\ ~test_running
    /\ ~PacketTooSmall(c)
    /\ run < Len(script)
    /\ c = script[run + 1]
    /\ LET r == run + 1 IN
        /\ run' = r
        /\ in_waiting' = _clear_serial_buffers
        /\ stats' = ResetStats(stats, now)
        /\ receiver_stats' = ResetReceiverStats(receiver_stats)
        /\ receiver_grace_period_end' = None
        /\ current_write_interval' = c.write_freq
        /\ test_running' = TRUE
        /\ target_packets' = c.target_packets
        /\ test_end_time' =
              IF Truthy(c.test_length) THEN now + c.test_length ELSE None
        /\ receiver_threads' =
              [i \in Receivers |-> IF i <= active_receivers THEN r ELSE None]
        /\ receiver' = [receiver EXCEPT ![r] =
              [i \in Receivers |->
                  IF i <= active_receivers
                  THEN [IdleReceiver EXCEPT !.pc = "start",
                                            !.size = c.total_size]
                  ELSE IdleReceiver]]
        /\ test_thread' = r
        /\ sender' = [sender EXCEPT ![r] =
              [IdleSender EXCEPT !.pc = "start", !.cfg = c]]
        /\ IF Truthy(c.test_length) \/ Truthy(c.target_packets)
           THEN /\ monitor_thread' = r
                /\ monitor' = [monitor EXCEPT ![r] =
                      [IdleMonitor EXCEPT
                          !.pc = "poll",
                          !.use_packet_count =
                              (c.target_packets # None /\ c.target_packets > 0)]]
           ELSE UNCHANGED << monitor_thread, monitor >>
    /\ lastCall' = "start_ok"
    /\ captured_end' = None
    /\ deadline_seen' = None
    /\ late_frame' = [i \in Receivers |-> FALSE]
    /\ drain_missed' = FALSE
    /\ user_stop' = FALSE
    /\ port_errors' = {}
    /\ reported_corrupt' = NoRate
    /\ stop_log' = << >>
    /\ UNCHANGED << now, active_receivers, wire, main, pending_stops, harness >>

start_test(c) ==
    /\ main.pc = "idle"
    /\ \/ StartRejectedRunning
       \/ StartRejectedSize(c)
       \/ StartAccepted(c)

(***************************************************************************)
(* _sender_thread of run r.                                                *)
(***************************************************************************)
SenderAlive(r) == sender[r].pc \in {"start", "loop", "sleep"}

\* Entry: the port check passes, buffers are cleared, the locals are set.
SenderStart(r) ==
    /\ sender[r].pc = "start"
    /\ in_waiting' = _clear_serial_buffers
    /\ sender' = [sender EXCEPT ![r].pc = "loop", ![r].sequence = 0,
                                ![r].start_time = now,
                                ![r].next_packet_time = now]
    /\ UNCHANGED << now, run, engineFields, handles, stats, receiver_stats,
                    receiver, monitor, wire, main, pending_stops, history, harness >>
    /\ lastCall' = "none"

\* The loop head and the two end-of-test checks.
SenderStops(r) ==
    LET me == sender[r]
        c == me.cfg
    IN \/ ~test_running
       \/ Truthy(c.test_length) /\ (now - me.start_time) >= c.test_length
       \/ Truthy(c.target_packets) /\ me.sequence >= c.target_packets

\* The loop ends.
SenderExit(r) ==
    /\ sender[r].pc = "loop"
    /\ SenderStops(r)
    /\ sender' = [sender EXCEPT ![r] = DeadSender]
    /\ UNCHANGED << now, run, engineFields, handles, stats, receiver_stats,
                    receiver, monitor, channels, main, pending_stops, history, harness >>
    /\ lastCall' = "none"

\* Ahead of schedule: time.sleep(next_packet_time - current_time).
SenderSleep(r) ==
    /\ sender[r].pc = "loop"
    /\ ~SenderStops(r)
    /\ now < sender[r].next_packet_time
    /\ sender' = [sender EXCEPT ![r].pc = "sleep"]
    /\ UNCHANGED << now, run, engineFields, handles, stats, receiver_stats,
                    receiver, monitor, channels, main, pending_stops, history, harness >>
    /\ lastCall' = "none"

\* The thread is at "Create and send packet": on schedule or late at the
\* loop head, or just back from its sleep.
SenderAtSend(r) ==
    \/ sender[r].pc = "loop" /\ ~SenderStops(r)
                             /\ ~(now < sender[r].next_packet_time)
    \/ sender[r].pc = "sleep" /\ now >= sender[r].next_packet_time

\* A plausible slip: the next fire time taken from the clock at the send,
\* next_packet_time = time.time() + write_freq.
SenderWriteFromClock(r) ==
    /\ SenderAtSend(r)
    /\ LET me == sender[r]
           packet == _create_packet(me.sequence, Payload(me.cfg.total_size), now)
       IN /\ wire' = [i \in Receivers |->
                       IF i <= active_receivers THEN Append(wire[i], packet)
                       ELSE wire[i]]
          /\ stats' = [stats EXCEPT !.bytes_sent = @ + Len(packet),
                                    !.packets_sent = @ + 1]
          /\ sender' = [sender EXCEPT
                            ![r].pc = "loop",
                            ![r].sequence = @ + 1,
                            ![r].next_packet_time = now + me.cfg.write_freq,
                            ![r].last_write = now]
    /\ UNCHANGED << now, run, engineFields, handles, receiver_stats,
                    receiver, monitor, in_waiting, main, pending_stops, history, harness >>
    /\ lastCall' = "none"

\* The frame is built and written; the counters rise under stats_mutex.
SenderWrite(r) ==
    /\ SenderAtSend(r)
    /\ LET me == sender[r]
           packet == _create_packet(me.sequence, Payload(me.cfg.total_size), now)
       IN /\ wire' = [i \in Receivers |->
                       IF i <= active_receivers THEN Append(wire[i], packet)
                       ELSE wire[i]]
          /\ stats' = [stats EXCEPT !.bytes_sent = @ + Len(packet),
                                    !.packets_sent = @ + 1]
          /\ sender' = [sender EXCEPT
                            ![r].pc = "loop",
                            ![r].sequence = @ + 1,
                            ![r].next_packet_time = @ + me.cfg.write_freq,
                            ![r].last_write = now]
    /\ UNCHANGED << now, run, engineFields, handles, receiver_stats,
                    receiver, monitor, in_waiting, main, pending_stops, history, harness >>
    /\ lastCall' = "none"

\* The loop condition of the receiver.
ReceiverContinues ==
    \/ test_running
    \/ receiver_grace_period_end # None /\ now < receiver_grace_period_end

(***************************************************************************)
(* The radio link: a write reaches a receive port at most MaxLinkDelay     *)
(* ticks after it was made, unmodified and in order.                       *)
(***************************************************************************)
\* The drain window of a count-mode run, one write interval from the moment
\* the monitor captured end_time, is over.
DrainOver ==
    /\ captured_end # None
    /\ now >= captured_end + (IF Truthy(current_write_interval)
                              THEN current_write_interval ELSE 0)

Deliver(i) ==
    /\ wire[i] # <<>>
    /\ in_waiting' = [in_waiting EXCEPT ![i] = @ \o Head(wire[i])]
    /\ wire' = [wire EXCEPT ![i] = Tail(@)]
    /\ late_frame' = [late_frame EXCEPT
                         ![i] = @ \/ deadline_seen # None \/ captured_end # None]
    /\ drain_missed' = (drain_missed \/ DrainOver)
    /\ UNCHANGED << now, run, engineFields, handles, stats, receiver_stats,
                    workers, main, pending_stops, captured_end, deadline_seen,
                    user_stop, port_errors, reported_corrupt, stop_log,
                    harness >>
    /\ lastCall' = "none"

SentAt(packet) == UnpackTime(SubSeq(packet, 5, 12))

LinkBlocked(i) ==
    \A k \in 1..Len(wire[i]) : now < SentAt(wire[i][k]) + MaxLinkDelay

(***************************************************************************)
(* _receiver_thread of run r on channel i.                                 *)
(***************************************************************************)
ReceiverAlive(r, i) == receiver[r][i].pc \in {"start", "poll", "process"}

ReceiverStart(r, i) ==
    /\ receiver[r][i].pc = "start"
    /\ ~receiver[r][i].closed
    /\ in_waiting' = _clear_serial_buffers
    /\ receiver' = [receiver EXCEPT ![r][i].pc = "poll", ![r][i].buffer = <<>>]
    /\ UNCHANGED << now, run, engineFields, handles, stats, receiver_stats,
                    sender, monitor, wire, main, pending_stops, history, harness >>
    /\ lastCall' = "none"

\* The loop condition is false: the thread ends.
ReceiverExit(r, i) ==
    /\ receiver[r][i].pc = "poll"
    /\ ~ReceiverContinues
    /\ receiver' = [receiver EXCEPT ![r][i] = DeadReceiver]
    /\ UNCHANGED << now, run, engineFields, handles, stats, receiver_stats,
                    sender, monitor, channels, main, pending_stops, history, harness >>
    /\ lastCall' = "none"

\* conn.in_waiting > 0: everything waiting is read into the buffer.
ReceiverRead(r, i) ==
    /\ receiver[r][i].pc = "poll"
    /\ ReceiverContinues
    /\ ~receiver[r][i].closed
    /\ Len(in_waiting[i]) > 0
    /\ receiver' = [receiver EXCEPT ![r][i].pc = "process",
                                    ![r][i].buffer = @ \o in_waiting[i]]
    /\ in_waiting' = [in_waiting EXCEPT ![i] = <<>>]
    /\ UNCHANGED << now, run, engineFields, handles, stats, receiver_stats,
                    sender, monitor, wire, main, pending_stops, history, harness >>
    /\ lastCall' = "none"

\* The counters of channel i after one window with the given verdict.
CountWindow(rs, i, valid, length, latency) ==
    IF valid
    THEN [rs EXCEPT ![i].packets_received = @ + 1,
                    ![i].bytes_received_valid = @ + length,
                    ![i].bytes_received_total = @ + length,
                    ![i].latency_samples = DequeAppend(@, latency)]
    ELSE [rs EXCEPT ![i].packets_corrupt = @ + 1,
                    ![i].bytes_received_total = @ + length]

\* A plausible slip: the hash comparison is left out of the verdict.
CountWithoutHashCheck(rs, i, packet, t) ==
    CountWindow(rs, i, Len(packet) >= packet_header_size, Len(packet),
                PacketLatency(packet, t))

\* A plausible slip: a window whose hash mismatches is still counted as
\* received.
CountCorruptAsReceived(rs, i, packet, t) ==
    IF PacketValid(packet)
    THEN CountWindow(rs, i, TRUE, Len(packet), PacketLatency(packet, t))
    ELSE [rs EXCEPT ![i].packets_corrupt = @ + 1,
                    ![i].packets_received = @ + 1,
                    ![i].bytes_received_total = @ + Len(packet)]

\* The body of the packet loop for one window: validate, then count.
ProcessWindow(rs, i, packet, t) ==
    CountWindow(rs, i, PacketValid(packet), Len(packet),
                PacketLatency(packet, t))

\* One pass of "while len(buffer) >= expected_packet_size", or its exit into
\* the 1 ms sleep.
ReceiverProcess(r, i) ==
    /\ receiver[r][i].pc = "process"
    /\ LET me == receiver[r][i] IN
       IF Len(me.buffer) >= me.size
       THEN LET packet == SubSeq(me.buffer, 1, me.size)
                rest == SubSeq(me.buffer, me.size + 1, Len(me.buffer))
                counted == ProcessWindow(receiver_stats, i, packet, now)
                \* latency_store is the deque the thread took at its start;
                \* after set_active_receivers replaced the channel's record
                \* it is no longer the one in receiver_stats
                rs == IF me.closed
                      THEN [counted EXCEPT ![i].latency_samples =
                                              receiver_stats[i].latency_samples]
                      ELSE counted
            IN /\ receiver' = [receiver EXCEPT ![r][i].buffer = rest]
               /\ receiver_stats' = rs
               /\ stats' = _recalculate_receiver_totals(stats, rs)
       ELSE /\ receiver' = [receiver EXCEPT ![r][i].pc = "poll"]
            /\ UNCHANGED << stats, receiver_stats >>
    /\ UNCHANGED << now, run, engineFields, handles, sender, monitor,
                    channels, main, pending_stops, history, harness >>
    /\ lastCall' = "none"

(***************************************************************************)
(* _monitor_test_end of run r.  It reads the engine's shared fields        *)
(* (target_packets, test_end_time, current_write_interval), not arguments. *)
(* use_packet_count is fixed when the thread starts, from the              *)
(* target_packets start_test has just stored.  The except clause of the    *)
(* loop is not modelled: no statement of the loop raises while the ports   *)
(* stay open (target_packets is rewritten only by a start_test, and a      *)
(* monitor is never at the loop head across one).                          *)
(***************************************************************************)
MonitorAlive(r) == monitor[r].pc \in {"poll", "cleared", "drain", "probe"}

\* Loop head found test_running false: the thread ends.
MonitorExit(r) ==
    /\ monitor[r].pc = "poll"
    /\ ~test_running
    /\ monitor' = [monitor EXCEPT ![r] = DeadMonitor]
    /\ UNCHANGED << now, run, engineFields, handles, stats, receiver_stats,
                    sender, receiver, channels, main, pending_stops, history, harness >>
    /\ lastCall' = "none"

\* Count mode: the target is reached.  end_time is captured and the flag is
\* cleared (lines 583-584).
MonitorTargetReached(r) ==
    /\ monitor[r].pc = "poll"
    /\ test_running
    /\ monitor[r].use_packet_count
    /\ target_packets # None
    /\ stats.packets_sent >= target_packets
    /\ stats' = [stats EXCEPT !.end_time = now]
    /\ captured_end' = now
    /\ test_running' = FALSE
    /\ monitor' = [monitor EXCEPT ![r].pc = "cleared"]
    /\ UNCHANGED << now, run, test_end_time, target_packets,
                    receiver_grace_period_end, current_write_interval,
                    active_receivers, handles, receiver_stats, sender,
                    receiver, channels, main, pending_stops,
                    deadline_seen, late_frame, drain_missed, user_stop,
                    port_errors, reported_corrupt, stop_log,
                    harness >>
    /\ lastCall' = "none"

\* The statements that follow (lines 586-595): the drain window of one
\* write interval is opened and the monitor sleeps through it, or, with no
\* interval, stop_test is scheduled at once.
MonitorOpensDrain(r) ==
    /\ monitor[r].pc = "cleared"
    /\ LET extra_wait == IF Truthy(current_write_interval)
                         THEN current_write_interval ELSE 0
       IN IF extra_wait > 0
          THEN /\ receiver_grace_period_end' = now + extra_wait
               /\ monitor' = [monitor EXCEPT ![r].pc = "drain",
                                             ![r].wake = now + extra_wait]
               /\ UNCHANGED pending_stops
          ELSE /\ receiver_grace_period_end' = None
               /\ monitor' = [monitor EXCEPT ![r] = DeadMonitor]
               /\ pending_stops' = pending_stops + 1
    /\ UNCHANGED << now, run, test_running, test_end_time, target_packets,
                    current_write_interval, active_receivers, handles, stats,
                    receiver_stats, sender, receiver, channels, main,
                    history, harness >>
    /\ lastCall' = "none"

\* Duration mode: the deadline has passed.  The flag is cleared and the
\* 500 ms probe sleep begins.
MonitorDeadline(r) ==
    /\ monitor[r].pc = "poll"
    /\ test_running
    /\ ~monitor[r].use_packet_count
    /\ Truthy(test_end_time)
    /\ now >= test_end_time
    /\ test_running' = FALSE
    /\ deadline_seen' = now
    /\ monitor' = [monitor EXCEPT ![r].pc = "probe",
                                  ![r].wake = now + ProbeWait]
    /\ UNCHANGED << now, run, test_end_time, target_packets,
                    receiver_grace_period_end, current_write_interval,
                    active_receivers, handles, stats, receiver_stats, sender,
                    receiver, channels, main, pending_stops, captured_end, late_frame,
                    drain_missed, user_stop, port_errors, reported_corrupt, stop_log,
                    harness >>
    /\ lastCall' = "none"

\* The drain wait is over: QTimer.singleShot(0, self.stop_test).
MonitorDrainWake(r) ==
    /\ monitor[r].pc = "drain"
    /\ now >= monitor[r].wake
    /\ pending_stops' = pending_stops + 1
    /\ monitor' = [monitor EXCEPT ![r] = DeadMonitor]
    /\ UNCHANGED << now, run, engineFields, handles, stats, receiver_stats,
                    sender, receiver, channels, main, history, harness >>
    /\ lastCall' = "none"

\* The probe sleep is over: the grace window is granted if anything was
\* received, then stop_test is scheduled.
MonitorProbeWake(r) ==
    /\ monitor[r].pc = "probe"
    /\ now >= monitor[r].wake
    /\ receiver_grace_period_end' =
          IF stats.packets_received.n > 0 THEN now + GraceExtension
          ELSE receiver_grace_period_end
    /\ pending_stops' = pending_stops + 1
    /\ monitor' = [monitor EXCEPT ![r] = DeadMonitor]
    /\ UNCHANGED << now, run, test_running, test_end_time, target_packets,
                    current_write_interval, active_receivers, handles, stats,
                    receiver_stats, sender, receiver, channels, main, history, harness >>
    /\ lastCall' = "none"

(***************************************************************************)
(* stop_test, on the GUI thread: called by the user, or run by the event   *)
(* loop for a QTimer.singleShot(0, self.stop_test) of a monitor.           *)
(***************************************************************************)
\* A plausible slip: "is None" for "is not None".
FinalizedTestInverted == ~test_running /\ stats.elapsed_time = None

\* "if not self.test_running and self.stats['elapsed_time'] is not None"
AlreadyFinalized == ~test_running /\ stats.elapsed_time # None

StopEnter ==
    /\ main.pc = "idle"
    /\ IF AlreadyFinalized
       THEN /\ lastCall' = "stop_noop"
            /\ UNCHANGED << test_running, main >>
       ELSE /\ test_running' = FALSE
            /\ main' = [pc |-> "join_sender", idx |-> 0,
                        deadline |-> now + JoinTimeout]
            /\ lastCall' = "stop_begun"
    /\ UNCHANGED << now, run, test_end_time, target_packets,
                    receiver_grace_period_end, current_write_interval,
                    active_receivers, handles, stats, receiver_stats, workers,
                    channels, captured_end, deadline_seen, late_frame,
                    drain_missed, port_errors, reported_corrupt, stop_log,
                    harness >>

\* The user presses Stop.
stop_test ==
    /\ StopEnter
    /\ user_stop' = (user_stop \/ ~AlreadyFinalized)
    /\ UNCHANGED pending_stops

\* The event loop runs a stop_test a monitor has queued.
stop_test_timer ==
    /\ pending_stops > 0
    /\ pending_stops' = pending_stops - 1
    /\ StopEnter
    /\ UNCHANGED user_stop

\* self.test_thread.join(timeout=2.0) returns.
SenderJoinReturns ==
    IF test_thread = None THEN TRUE
    ELSE ~SenderAlive(test_thread) \/ now >= main.deadline

JoinSender ==
    /\ main.pc = "join_sender"
    /\ SenderJoinReturns
    /\ main' = [pc |-> "join_receivers", idx |-> 1,
                deadline |-> now + JoinTimeout]
    /\ UNCHANGED << now, run, engineFields, handles, stats, receiver_stats,
                    workers, channels, pending_stops, history, harness >>
    /\ lastCall' = "none"

\* One pass of the loop over receiver_threads: join, then drop the handle.
ReceiverJoinReturns(idx) ==
    IF receiver_threads[idx] = None THEN TRUE
    ELSE ~ReceiverAlive(receiver_threads[idx], idx) \/ now >= main.deadline

JoinReceiver ==
    /\ main.pc = "join_receivers"
    /\ ReceiverJoinReturns(main.idx)
    /\ receiver_threads' = [receiver_threads EXCEPT ![main.idx] = None]
    /\ main' = IF main.idx < NumReceivers
               THEN [main EXCEPT !.idx = main.idx + 1,
                                 !.deadline = now + JoinTimeout]
               ELSE [pc |-> "join_monitor", idx |-> 0,
                     deadline |-> now + JoinTimeout]
    /\ UNCHANGED << now, run, engineFields, test_thread, monitor_thread, stats,
                    receiver_stats, workers, channels, pending_stops, history, harness >>
    /\ lastCall' = "none"

MonitorJoinReturns ==
    IF monitor_thread = None THEN TRUE
    ELSE ~MonitorAlive(monitor_thread) \/ now >= main.deadline

\* A plausible slip: the wall clock is used whatever the mode.
ElapsedWallClock(st) == now - st.start_time

\* The elapsed time stop_test stores.
Elapsed(st) ==
    IF Truthy(target_packets) /\ Truthy(st.end_time)
    THEN st.end_time - st.start_time
    ELSE now - st.start_time

\* The final statistics computed under stats_mutex.
FinalStats(st0) ==
    LET st1 == _recalculate_receiver_totals(st0, receiver_stats)
        elapsed == Elapsed(st1)
        st2 == IF ~Truthy(st1.start_time) THEN st1
               ELSE IF elapsed > 0
               THEN [st1 EXCEPT
                       !.elapsed_time = elapsed,
                       !.data_rate_total_bps =
                           RatDiv(RatMul(st1.bytes_received_total, 8), elapsed),
                       !.data_rate_valid_bps =
                           RatDiv(RatMul(st1.bytes_received_valid, 8), elapsed),
                       !.send_rate_bps = Rat(st1.bytes_sent * 8, elapsed)]
               ELSE [st1 EXCEPT !.elapsed_time = elapsed]
    IN [st2 EXCEPT !.end_time = now]

\* update_statistics with test_running false: the per-receiver figures.
update_receiver_figures(st, rs) ==
    [i \in Receivers |->
        IF i > active_receivers
        THEN [rs[i] EXCEPT !.valid_rate_bps = NoRate, !.packet_loss = NoRate,
                           !.avg_latency = NoRate]
        ELSE [rs[i] EXCEPT
                !.valid_rate_bps =
                    IF st.elapsed_time # None /\ st.elapsed_time > 0
                    THEN Rat(rs[i].bytes_received_valid * 8, st.elapsed_time)
                    ELSE @,
                !.packet_loss =
                    IF st.packets_sent > 0
                    THEN Rat((st.packets_sent - rs[i].packets_received) * 100,
                             st.packets_sent)
                    ELSE NoRate,
                !.avg_latency =
                    IF rs[i].latency_samples # <<>>
                    THEN Rat(SumSeq(rs[i].latency_samples),
                             Len(rs[i].latency_samples))
                    ELSE NoRate]]

\* The entries stop_test writes with self._log, all after its joins: the
\* banner and the two statistics blocks.
StopLogEntries ==
    << "Test stopped", "=== Test Statistics ===",
       "=== Per-Receiver Statistics ===" >>

\* "Overall Corrupt Packets" in the log of stop_test.
corrupt_percent(st) ==
    LET total_received == st.packets_received
        total_corrupt == st.packets_corrupt
    IN IF total_received.n > 0
       THEN RatMul(RatQuot(total_corrupt, total_received), 100)
       ELSE RatZero

\* self.monitor_thread.join(timeout=2.0) returns, the final statistics are
\* computed and stored, and the summary is logged.
Finalize ==
    /\ main.pc = "join_monitor"
    /\ MonitorJoinReturns
    /\ stats' = FinalStats(stats)
    /\ receiver_stats' = update_receiver_figures(stats', receiver_stats)
    /\ reported_corrupt' = corrupt_percent(stats')
    /\ stop_log' = StopLogEntries
    /\ main' = IdleMain
    /\ lastCall' = "stop_final"
    /\ UNCHANGED << now, run, engineFields, handles, workers, channels,
                    pending_stops, captured_end, deadline_seen, late_frame,
                    drain_missed, user_stop, port_errors, harness >>

(***************************************************************************)
(* The clock.  Time passes only when no thread can run: every live worker  *)
(* is asleep or polling with nothing to do, every frame in the air may     *)
(* still stay there, and the GUI thread is idle with an empty event queue  *)
(* or blocked in a join that has not yet timed out.                        *)
(***************************************************************************)
SenderBlocked(r) ==
    \/ ~SenderAlive(r)
    \/ sender[r].pc = "sleep" /\ now < sender[r].next_packet_time

ReceiverBlocked(r, i) ==
    \/ ~ReceiverAlive(r, i)
    \/ receiver[r][i].pc = "poll" /\ ReceiverContinues /\ in_waiting[i] = <<>>

MonitorBlocked(r) ==
    \/ ~MonitorAlive(r)
    \/ monitor[r].pc \in {"drain", "probe"} /\ now < monitor[r].wake
    \/ /\ monitor[r].pc = "poll"
       /\ test_running
       /\ IF monitor[r].use_packet_count
          THEN target_packets # None /\ stats.packets_sent < target_packets
          ELSE ~(Truthy(test_end_time) /\ now >= test_end_time)

MainBlocked ==
    \/ main.pc = "idle" /\ pending_stops = 0
    \/ main.pc = "join_sender" /\ ~SenderJoinReturns
    \/ main.pc = "join_receivers" /\ ~ReceiverJoinReturns(main.idx)
    \/ main.pc = "join_monitor" /\ ~MonitorJoinReturns

Tick ==
    /\ now < MaxTime
    /\ run > 0
    /\ \A r \in Runs : SenderBlocked(r) /\ MonitorBlocked(r)
    /\ \A r \in Runs : \A i \in Receivers : ReceiverBlocked(r, i)
    /\ \A i \in Receivers : LinkBlocked(i)
    /\ MainBlocked
    /\ now' = now + 1
    /\ UNCHANGED << run, engineFields, handles, stats, receiver_stats, workers,
                    channels, main, pending_stops, history, harness >>
    /\ lastCall' = "none"

(***************************************************************************)
(* The engine's next-state relation and specification.                     *)
(***************************************************************************)
Next ==
    \/ \E c \in Configs : start_test(c)
    \/ stop_test
    \/ stop_test_timer
    \/ JoinSender
    \/ JoinReceiver
    \/ Finalize
    \/ \E r \in Runs :
          \/ SenderStart(r)
          \/ SenderExit(r)
          \/ SenderSleep(r)
          \/ SenderWrite(r)
          \/ MonitorExit(r)
          \/ MonitorTargetReached(r)
          \/ MonitorOpensDrain(r)
          \/ MonitorDeadline(r)
          \/ MonitorDrainWake(r)
          \/ MonitorProbeWake(r)
    \/ \E r \in Runs : \E i \in Receivers :
          \/ ReceiverStart(r, i)
          \/ ReceiverExit(r, i)
          \/ ReceiverRead(r, i)
          \/ ReceiverProcess(r, i)
    \/ \E i \in Receivers : Deliver(i)
    \/ Tick

Spec == Init /\ [][Next]_vars

(***************************************************************************)
(* The engine with failing ports.  A write of the sender or a read of a    *)
(* receiver may raise (the adapter is unplugged, the driver reports an     *)
(* error); the worker logs the error and leaves its loop.  SpecFaults has  *)
(* every receive channel active.  SpecFair has one, and says that worker   *)
(* threads, the event loop, the link and the clock keep running: a step    *)
(* that is neither a call of the user nor a port error is taken if it      *)
(* stays possible.                                                         *)
(***************************************************************************)
\* conn.write or conn.flush raises: "Error sending packet", break.
SenderWriteFails(r) ==
    /\ SenderAtSend(r)
    /\ sender' = [sender EXCEPT ![r] = DeadSender]
    /\ port_errors' = port_errors \cup {0}
    /\ UNCHANGED << now, run, engineFields, handles, stats, receiver_stats,
                    receiver, monitor, channels, main, pending_stops,
                    captured_end, deadline_seen, late_frame, drain_missed,
                    user_stop, reported_corrupt, stop_log,
                    harness >>
    /\ lastCall' = "none"

\* A plausible slip: the receiver's except clause ends the run, as the
\* monitor's does.
ReadErrorStopsRun(r, i) ==
    /\ receiver[r][i].pc = "poll"
    /\ ReceiverContinues
    /\ receiver' = [receiver EXCEPT ![r][i] = DeadReceiver]
    /\ port_errors' = port_errors \cup {i}
    /\ test_running' = FALSE
    /\ UNCHANGED << now, run, test_end_time, target_packets,
                    receiver_grace_period_end, current_write_interval,
                    active_receivers, handles, stats, receiver_stats,
                    sender, monitor, channels, main, pending_stops,
                    captured_end, deadline_seen, late_frame, drain_missed,
                    user_stop, reported_corrupt, stop_log,
                    harness >>
    /\ lastCall' = "none"

\* conn.in_waiting or conn.read raises: "Receiver i error", break.
ReceiverReadFails(r, i) ==
    /\ receiver[r][i].pc = "poll"
    /\ ReceiverContinues
    /\ receiver' = [receiver EXCEPT ![r][i] = DeadReceiver]
    /\ port_errors' = port_errors \cup {i}
    /\ UNCHANGED << now, run, engineFields, handles, stats, receiver_stats,
                    sender, monitor, channels, main, pending_stops,
                    captured_end, deadline_seen, late_frame, drain_missed,
                    user_stop, reported_corrupt, stop_log,
                    harness >>
    /\ lastCall' = "none"

FaultScripts == { << CountConfig(1, MaxTarget) >>, << DurationConfig >> }

InitFaults ==
    /\ Constructed(NumReceivers)
    /\ qt = QtConstructed
    /\ tk = TkConstructed
    /\ locks = LocksIdle
    /\ script \in FaultScripts
    /\ feed = <<>>
    /\ codec = IdleCodec

\* The steps of the engine no user and no port error takes.
Scheduled ==
    \/ stop_test_timer
    \/ JoinSender
    \/ JoinReceiver
    \/ Finalize
    \/ \E r \in Runs :
          \/ SenderStart(r)
          \/ SenderExit(r)
          \/ SenderSleep(r)
          \/ SenderWrite(r)
          \/ MonitorExit(r)
          \/ MonitorTargetReached(r)
          \/ MonitorOpensDrain(r)
          \/ MonitorDeadline(r)
          \/ MonitorDrainWake(r)
          \/ MonitorProbeWake(r)
    \/ \E r \in Runs : \E i \in Receivers :
          \/ ReceiverStart(r, i)
          \/ ReceiverExit(r, i)
          \/ ReceiverRead(r, i)
          \/ ReceiverProcess(r, i)
    \/ \E i \in Receivers : Deliver(i)
    \/ Tick

NextFaults ==
    \/ Next
    \/ \E r \in Runs : SenderWriteFails(r)
    \/ \E r \in Runs : \E i \in Receivers : ReceiverReadFails(r, i)

SpecFaults == InitFaults /\ [][NextFaults]_vars

\* The runs with an auto-stop condition.
FairScripts ==
    { << CountConfig(1, MaxTarget) >>, << CountConfig(LongInterval, 1) >>,
      << DurationConfig >>, << BothConfig >>, << ZeroIntervalConfig >>,
      << ShortOfTargetConfig >> }

InitFair ==
    /\ Constructed(1)
    /\ qt = QtConstructed
    /\ tk = TkConstructed
    /\ locks = LocksIdle
    /\ script \in FairScripts
    /\ feed = <<>>
    /\ codec = IdleCodec

NextFair ==
    \/ NextFaults
    \/ start_test(ShortOfTargetConfig)

SpecFair == InitFair /\ [][NextFair]_vars /\ WF_vars(Scheduled)

(***************************************************************************)
(* The receiver under a test harness.  Receive port 1 is wired to a        *)
(* harness instead of the radio: what the sender writes reaches no port,   *)
(* and the harness writes a prepared byte stream to the port, in pieces,   *)
(* once the workers of the run are past the buffer clear they start with.  *)
(* The stream is FramesFed valid frames with K bytes of garbage between    *)
(* one frame and the next.                                                 *)
(***************************************************************************)
FramesFed == 2
GarbageByte == 0

Garbage(K) == [k \in 1..K |-> GarbageByte]

RECURSIVE FramesFrom(_, _)
FramesFrom(q, K) ==
    IF q >= FramesFed THEN <<>>
    ELSE (IF q > 0 THEN Garbage(K) ELSE <<>>)
            \o _create_packet(q, Payload(MinSize), 1)
            \o FramesFrom(q + 1, K)

RxStream(K) == FramesFrom(0, K)

GarbageLens == { 1, MinSize - 1 }
FeedSizes == { 1, MinSize }

Feed(n) ==
    /\ run > 0
    /\ n <= Len(feed)
    /\ sender[run].pc # "start"
    /\ \A i \in ActiveStats(receiver_stats) :
          receiver[run][i].pc \in {"poll", "process"}
    /\ in_waiting' = [in_waiting EXCEPT ![1] = @ \o SubSeq(feed, 1, n)]
    /\ feed' = SubSeq(feed, n + 1, Len(feed))
    /\ lastCall' = "none"
    /\ UNCHANGED << now, run, engineFields, handles, stats, receiver_stats,
                    workers, wire, main, pending_stops, history, script,
                    codec, qt, tk, locks >>

InitRx ==
    /\ Constructed(1)
    /\ qt = QtConstructed
    /\ tk = TkConstructed
    /\ locks = LocksIdle
    /\ script = << ManualConfig >>
    /\ feed \in { RxStream(K) : K \in GarbageLens }
    /\ codec = IdleCodec

NextRx ==
    \/ \E c \in Configs : start_test(c)
    \/ \E r \in Runs :
          \/ SenderStart(r)
          \/ SenderSleep(r)
          \/ SenderWrite(r)
    \/ \E r \in Runs : \E i \in Receivers :
          \/ ReceiverStart(r, i)
          \/ ReceiverRead(r, i)
          \/ ReceiverProcess(r, i)
    \/ \E n \in FeedSizes : Feed(n)

SpecRx == InitRx /\ [][NextRx]_vars

(***************************************************************************)
(* The codec under a test harness.  The harness picks a sequence number    *)
(* and a payload, has _create_packet build the frame, may then replace the *)
(* payload bytes of the frame by a different payload of the same length,   *)
(* and hands the frame to the receiver's packet loop as one window.        *)
(***************************************************************************)
MaxPayloadLen == 2
CodecBytes == { 0, PayloadByte, 255 }
\* Sequence numbers at the byte boundaries of the 32-bit field, up to the
\* largest integer the model checker represents (2^31 - 1).
LargestSequence == (2^30 - 1) * 2 + 1
CodecSequences ==
    { 0, 1, 255, 256, 65535, 65536, 16777215, 16777216, LargestSequence }

RECURSIVE SeqsOfLen(_, _)
SeqsOfLen(S, n) ==
    IF n = 0 THEN { <<>> }
    ELSE { Append(q, b) : q \in SeqsOfLen(S, n - 1), b \in S }

CodecPayloads == UNION { SeqsOfLen(CodecBytes, n) : n \in 1..MaxPayloadLen }

\* What _validate_packet unpacks from a frame.
DecodedSequence(packet) == UnpackU32(SubSeq(packet, 1, 4))
DecodedPayload(packet) == SubSeq(packet, packet_header_size + 1, Len(packet))

engine == << now, run, engineFields, handles, workers, channels, main,
             pending_stops, lastCall, history, script, feed, qt, tk,
             locks >>

Encode ==
    /\ codec.pc = "input"
    /\ codec' = [codec EXCEPT
                    !.pc = "encoded",
                    !.packet = _create_packet(codec.sequence, codec.payload, now)]
    /\ UNCHANGED << engine, stats, receiver_stats >>

Tamper(q) ==
    /\ codec.pc = "encoded"
    /\ Len(q) = Len(codec.payload)
    /\ q # codec.payload
    /\ codec' = [codec EXCEPT
                    !.pc = "encoded_tampered",
                    !.tampered = TRUE,
                    !.packet = SubSeq(codec.packet, 1, packet_header_size) \o q]
    /\ UNCHANGED << engine, stats, receiver_stats >>

Receive ==
    /\ codec.pc \in {"encoded", "encoded_tampered"}
    /\ codec' = [codec EXCEPT !.pc = "received"]
    /\ receiver_stats' = ProcessWindow(receiver_stats, 1, codec.packet, now)
    /\ stats' = _recalculate_receiver_totals(stats, receiver_stats')
    /\ UNCHANGED engine

InitCodec ==
    /\ Constructed(1)
    /\ qt = QtConstructed
    /\ tk = TkConstructed
    /\ locks = LocksIdle
    /\ script = << ManualConfig >>
    /\ feed = <<>>
    /\ codec \in { [IdleCodec EXCEPT !.pc = "input", !.sequence = q,
                                     !.payload = P] :
                      q \in CodecSequences, P \in CodecPayloads }

NextCodec ==
    \/ Encode
    \/ \E q \in CodecPayloads : Tamper(q)
    \/ Receive

SpecCodec == InitCodec /\ [][NextCodec]_vars

(***************************************************************************)
(* The summary of stop_test under a test harness.  A manual-mode run is    *)
(* started; beside what the sender writes, the harness writes a prepared   *)
(* stream of windows to receive port 1, each a valid frame or a frame      *)
(* whose payload byte was replaced; the user then stops the run.           *)
(***************************************************************************)
MaxWindows == 2
GoodFrame == _create_packet(0, Payload(MinSize), 1)
BadFrame == SubSeq(GoodFrame, 1, packet_header_size) \o << GarbageByte >>

RECURSIVE Concat(_)
Concat(ws) == IF ws = <<>> THEN <<>> ELSE Head(ws) \o Concat(Tail(ws))

ReportStreams ==
    { Concat(ws) : ws \in UNION { SeqsOfLen({GoodFrame, BadFrame}, k) :
                                   k \in 1..MaxWindows } }

InitReport ==
    /\ Constructed(1)
    /\ qt = QtConstructed
    /\ tk = TkConstructed
    /\ locks = LocksIdle
    /\ script = << ManualConfig >>
    /\ feed \in ReportStreams
    /\ codec = IdleCodec

NextReport ==
    \/ \E c \in Configs : start_test(c)
    \/ stop_test
    \/ JoinSender
    \/ JoinReceiver
    \/ Finalize
    \/ \E r \in Runs :
          \/ SenderStart(r)
          \/ SenderExit(r)
          \/ SenderSleep(r)
          \/ SenderWrite(r)
    \/ \E r \in Runs : \E i \in Receivers :
          \/ ReceiverStart(r, i)
          \/ ReceiverExit(r, i)
          \/ ReceiverRead(r, i)
          \/ ReceiverProcess(r, i)
    \/ \E i \in Receivers : Deliver(i)
    \/ Feed(MinSize)
    \/ Tick

SpecReport == InitReport /\ [][NextReport]_vars

(***************************************************************************)
(* Properties of the lifecycle calls.                                      *)
(***************************************************************************)
\* C1: start_test called while test_running is true is rejected: it resets
\* no statistic, leaves start_time, target_packets, test_end_time and
\* current_write_interval as they are, and spawns no sender, receiver or
\* monitor worker.
C1_StartWhileRunningRejected ==
    [][ (test_running /\ \E c \in Configs : start_test(c))
            => UNCHANGED << stats, receiver_stats, engineFields, handles,
                            workers, run >> ]_vars

\* A start_test has just been rejected in the middle of a run that has
\* already sent a frame.
C1_RejectedMidRun ==
    /\ lastCall = "start_running"
    /\ test_running
    /\ stats.packets_sent > 0

\* C2: stop_test called again after a run has been finalized (test_running
\* false and elapsed_time set) is a no-op: elapsed_time, end_time, every
\* counter and every rate keep their values and no worker is joined again.
C2_SecondStopIsNoOp ==
    [][ (~test_running /\ stats.elapsed_time # None
            /\ (stop_test \/ stop_test_timer))
            => UNCHANGED << stats, receiver_stats, engineFields, handles,
                            workers, main >> ]_vars

\* A stop_test has just returned early on a finalized run that had sent and
\* received frames.
C2_StoppedTwice ==
    /\ lastCall = "stop_noop"
    /\ stats.elapsed_time # None
    /\ stats.packets_sent > 0
    /\ stats.packets_received.n > 0

\* C3: start_test with a total packet size below header + 1 (45) is rejected
\* at once: test_running stays false, no worker is spawned and no statistic
\* is reset or changed.
C3_TooSmallRejected ==
    [][ (~test_running
            /\ \E c \in Configs :
                  c.total_size < packet_header_size + 1 /\ start_test(c))
            => (~test_running'
                /\ UNCHANGED << stats, receiver_stats, engineFields, handles,
                                workers, run >>) ]_vars

\* A start_test has just been rejected for its packet size while no test
\* was running.
C3_RejectedForSize ==
    /\ lastCall = "start_badsize"
    /\ ~test_running
    /\ run = 0

\* The configurations C4 calls invalid: a pacing interval that is not
\* positive, or not exactly one of duration and target packet count.
InvalidSpec(c) ==
    \/ c.write_freq <= 0
    \/ (c.test_length = None) <=> (c.target_packets = None)

\* C4: start_test is rejected (test_running stays false, no worker spawned)
\* whenever the pacing interval is not positive, or neither a duration nor a
\* target packet count is set, or both are set.
C4_InvalidSpecRejected ==
    [][ (~test_running
            /\ \E c \in Configs : InvalidSpec(c) /\ start_test(c))
            => (~test_running' /\ UNCHANGED << handles, workers, run >>) ]_vars

\* The counters start_test resets are all at their reset values.
StatsFresh ==
    /\ stats.bytes_sent = 0
    /\ stats.packets_sent = 0
    /\ stats.bytes_received = RatZero
    /\ stats.bytes_received_valid = RatZero
    /\ stats.bytes_received_total = RatZero
    /\ stats.packets_received = RatZero
    /\ stats.packets_corrupt = RatZero
    /\ stats.latency_samples = <<>>
    /\ stats.end_time = None
    /\ stats.elapsed_time = None
    /\ \A i \in Receivers :
          /\ receiver_stats[i].bytes_received_total = 0
          /\ receiver_stats[i].bytes_received_valid = 0
          /\ receiver_stats[i].packets_received = 0
          /\ receiver_stats[i].packets_corrupt = 0
          /\ receiver_stats[i].latency_samples = <<>>

\* A step in which a worker of the current run, or the finalization of the
\* current run by stop_test, writes the statistics.
UpdateByCurrentRun ==
    \/ SenderWrite(run)
    \/ MonitorTargetReached(run)
    \/ \E i \in Receivers : ReceiverProcess(run, i)
    \/ Finalize

\* C5: after any accepted start_test, also one that follows an earlier run,
\* the sender counters, the combined receive counters and every channel's
\* counters are 0, every latency buffer is empty and end_time and
\* elapsed_time are unset, until a worker of the new run updates them.
C5_FreshUntilOwnWorker ==
    [][ /\ (\E c \in Configs : StartAccepted(c)) => StatsFresh'
        /\ (run > 0 /\ StatsFresh /\ ~StatsFresh') => UpdateByCurrentRun ]_vars

\* C6: in a count-mode run with target T that the monitor's auto-stop ends,
\* with no transport error, packets_sent is exactly T in the finalized
\* result and never exceeds T during the run.  (packets_sent only grows
\* within a run, so it is T from the moment the monitor sees the target
\* reached.)
C6_SentEqualsTarget ==
    captured_end # None => stats.packets_sent = target_packets

\* C7: in a count-mode run ended by auto-stop the finalized elapsed_time is
\* the end_time the monitor captured when it saw packets_sent >= target,
\* before the drain wait, minus start_time, however long the drain wait and
\* the joins of stop_test take.
C7_ElapsedFixedAtCapture ==
    (captured_end # None /\ stats.elapsed_time # None)
        => stats.elapsed_time = captured_end - stats.start_time

\* An auto-stopped count-mode run is finalized, later than the moment the
\* monitor captured.
C7_FinalizedAfterDrain ==
    /\ captured_end # None
    /\ stats.elapsed_time # None
    /\ lastCall = "stop_final"
    /\ now > captured_end

\* C8: in a duration-mode run ended by auto-stop in which no frame arrives
\* after the deadline, the finalized elapsed_time is exactly test_length:
\* the probe wait, the monitor's poll delay and the joins are not in it.
C8_ElapsedIsDuration ==
    (/\ deadline_seen # None
     /\ \A i \in Receivers : ~late_frame[i]
     /\ stats.elapsed_time # None)
        => stats.elapsed_time = script[run].test_length

\* C9: in a duration-mode run, a valid frame that becomes readable on a
\* channel after the monitor cleared test_running at the deadline and before
\* the grace window ends is read by the channel's receiver and counted.  (A
\* frame still waiting at the port inside the window has a live receiver to
\* read it.)
C9_LateFrameHasReader ==
    \A i \in Receivers :
        (/\ deadline_seen # None
         /\ now < deadline_seen + GraceExtension
         /\ late_frame[i]
         /\ i <= active_receivers
         /\ Len(in_waiting[i]) >= script[run].total_size
         /\ PacketValid(SubSeq(in_waiting[i], 1, script[run].total_size)))
            => ReceiverAlive(run, i)

\* C10: a receiver fed a stream of valid frames with K garbage bytes
\* (0 < K < frame size) between them counts every valid frame of the stream
\* as a valid received packet, whatever the chunking of the reads.  (Once
\* the whole stream is read and processed, packets_received is the number
\* of frames fed.)
C10_EveryFrameCounted ==
    (/\ run > 0
     /\ feed = <<>>
     /\ in_waiting[1] = <<>>
     /\ receiver[run][1].pc = "poll")
        => receiver_stats[1].packets_received = FramesFed

(***************************************************************************)
(* Properties of the codec.                                                *)
(***************************************************************************)
\* C11: for every sequence number in 0..2^32-1 and every payload of at least
\* one byte, decoding the bytes _create_packet produced gives back the same
\* sequence number and payload, and the integrity check on the frame
\* succeeds.
C11_RoundTrip ==
    (codec.pc \in {"encoded", "received"} /\ ~codec.tampered)
        => /\ DecodedSequence(codec.packet) = codec.sequence
           /\ DecodedPayload(codec.packet) = codec.payload
           /\ PacketValid(codec.packet)
           /\ codec.pc = "received" => receiver_stats[1].packets_received = 1

\* A frame with the largest sequence number and a payload of the largest
\* length has gone through the receiver's packet loop untouched.
C11_LargestFrameReceived ==
    /\ codec.pc = "received"
    /\ ~codec.tampered
    /\ codec.sequence = LargestSequence
    /\ Len(codec.payload) = MaxPayloadLen

\* C12: replacing the payload bytes of an encoded frame by any different
\* payload of the same length, the 44-byte header left as it is, makes
\* validation return false, and the receiver counts the window as corrupt
\* and not as received.
C12_TamperedIsCorrupt ==
    codec.tampered
        => /\ ~PacketValid(codec.packet)
           /\ codec.pc = "received"
                => /\ receiver_stats[1].packets_corrupt = 1
                   /\ receiver_stats[1].packets_received = 0
                   /\ receiver_stats[1].bytes_received_valid = 0
                   /\ receiver_stats[1].bytes_received_total = Len(codec.packet)

\* A frame whose payload was replaced has gone through the receiver's packet
\* loop.
C12_TamperedReceived ==
    /\ codec.pc = "received"
    /\ codec.tampered
    /\ DecodedPayload(codec.packet) # codec.payload
    /\ SubSeq(codec.packet, 1, packet_header_size)
          = SubSeq(_create_packet(codec.sequence, codec.payload, now), 1,
                   packet_header_size)

(***************************************************************************)
(* Properties of a run on a clean link.                                    *)
(***************************************************************************)
\* C13: a count-mode run with target T on one receive channel, over a link
\* that delivers every frame unmodified and in order before the drain
\* window ends, and that the monitor's auto-stop ends, is finalized with
\* packets_received = T, packets_corrupt = 0 and bytes_received_total =
\* T * total_size, whatever the interleaving of the threads.
C13_AllFramesCounted ==
    (/\ captured_end # None
     /\ stats.elapsed_time # None
     /\ main.pc = "idle"
     /\ ~user_stop
     /\ active_receivers = 1
     /\ Truthy(current_write_interval)
     /\ wire[1] = <<>>
     /\ ~drain_missed)
    => /\ stats.packets_received = RatInt(target_packets)
       /\ stats.packets_corrupt = RatZero
       /\ stats.bytes_received_total
             = RatInt(target_packets * script[run].total_size)

(***************************************************************************)
(* Properties of runs with a failing port.                                 *)
(***************************************************************************)
\* The run is finalized and the engine idle.
Finalized ==
    /\ ~test_running
    /\ stats.elapsed_time # None
    /\ main.pc = "idle"

\* The finalized run has stopped before the configured duration was over.
EndedEarly ==
    Truthy(script[run].test_length)
        => stats.elapsed_time < script[run].test_length

\* C14: when a write of the sender fails during a run, the run ends early:
\* unless the user presses Stop, the engine eventually runs stop_test and
\* finalizes the run, with an elapsed_time shorter than the configured
\* duration, in count mode and in duration mode.
C14_WriteFailureEndsRun ==
    (0 \in port_errors) ~> (user_stop \/ (Finalized /\ EndedEarly))

\* A step in which a read of channel i raises.
ReadErrorOn(i) == i \in port_errors' /\ i \notin port_errors

\* C15: a read error on channel i ends only the receiver of channel i.  The
\* step leaves test_running, the sender, the monitor, the statistics and
\* every other receiver as they were; and while the run goes on, every
\* other receiver whose port has not failed is still in its loop, and so is
\* the sender until its own end-of-test check or a write error ends it.
C15_ReadErrorEndsOnlyThatReceiver ==
    /\ [][\A i \in Receivers :
            ReadErrorOn(i) =>
               /\ UNCHANGED << engineFields, handles, sender, monitor, stats,
                               receiver_stats, channels, main, pending_stops >>
               /\ \A r \in Runs : \A j \in Receivers \ {i} :
                     receiver'[r][j] = receiver[r][j]]_vars
    /\ [](\A i \in Receivers :
            (i \in port_errors /\ test_running) =>
               /\ \A j \in ActiveStats(receiver_stats) \ port_errors :
                     ReceiverAlive(run, j)
               /\ \/ SenderAlive(run)
                  \/ 0 \in port_errors
                  \/ /\ Truthy(script[run].target_packets)
                     /\ stats.packets_sent >= script[run].target_packets
                  \/ /\ Truthy(script[run].test_length)
                     /\ now >= stats.start_time + script[run].test_length)

\* Channel 1 failed before it had counted a frame; the run went on to its
\* auto-stop, and channel 2 counted every frame of it.
C15_OtherChannelCountedAll ==
    /\ 1 \in port_errors
    /\ receiver_stats[1].packets_received = 0
    /\ 2 \in ActiveStats(receiver_stats) \ port_errors
    /\ captured_end # None
    /\ ~user_stop
    /\ Finalized
    /\ stats.packets_sent = target_packets
    /\ receiver_stats[2].packets_received = target_packets

(***************************************************************************)
(* Properties of the summary stop_test logs.                               *)
(***************************************************************************)
\* C17: the overall corruption percentage the engine reports at Stop is
\* 100 * packets_corrupt / (packets_received + packets_corrupt), where
\* packets_received counts the hash-valid frames only, and 0 when that
\* denominator is 0.
C17_CorruptionOverAllWindows ==
    lastCall = "stop_final" =>
        reported_corrupt =
            IF stats.packets_received.n + stats.packets_corrupt.n = 0
            THEN RatZero
            ELSE RatMul(RatQuot(stats.packets_corrupt,
                                RatSum(stats.packets_received,
                                       stats.packets_corrupt)), 100)

(***************************************************************************)
(* Progress of a run towards its end.                                      *)
(***************************************************************************)
\* The configuration has an auto-stop condition.
AutoStop(c) == Truthy(c.test_length) \/ Truthy(c.target_packets)

\* Every worker thread of every run has returned.
AllWorkersEnded ==
    \A r \in Runs :
        /\ ~SenderAlive(r)
        /\ ~MonitorAlive(r)
        /\ \A i \in Receivers : ~ReceiverAlive(r, i)

\* C18: every accepted run with an auto-stop condition and no transport
\* error eventually reaches the finalized idle state (test_running false,
\* elapsed_time set, every worker ended) without a manual Stop, when worker
\* threads are scheduled fairly and the event loop runs the call the
\* monitor queued.
C18_AutoStopFinalizes ==
    (run > 0 /\ test_running /\ AutoStop(script[run]))
        ~> (port_errors # {} \/ (Finalized /\ AllWorkersEnded))

(***************************************************************************)
(* Properties of the drain window of a count-mode run.                     *)
(***************************************************************************)
\* C20: in a count-mode run every receiver stays in its read loop for the
\* whole drain window that follows the monitor clearing test_running: under
\* every interleaving, a valid frame that becomes readable after the flag
\* was cleared and before the drain window ends is counted.  (A frame
\* waiting at the port inside the window has a live receiver to read it.)
C20_DrainFrameHasReader ==
    \A i \in Receivers :
        (/\ captured_end # None
         /\ Truthy(current_write_interval)
         /\ ~DrainOver
         /\ late_frame[i]
         /\ i <= active_receivers
         /\ Len(in_waiting[i]) >= script[run].total_size
         /\ PacketValid(SubSeq(in_waiting[i], 1, script[run].total_size)))
            => ReceiverAlive(run, i)

(***************************************************************************)
(* The Qt window's engine: _start_test, its three kinds of thread, the     *)
(* Stop button and the queued _stop_test.  A written frame reaches every   *)
(* receive port at once and unmodified.                                    *)
(***************************************************************************)
outsideQt == << now, run, engineFields, handles, workers, channels, main,
                pending_stops, lastCall, history, script, feed, codec, tk,
                locks,
                stats, receiver_stats >>

QtConfigs == { CountConfig(1, t) : t \in 1..MaxTarget } \cup { DurationConfig }

QtClearedPorts == [i \in QtReceivers |-> 0]

Qt_start_test(cfg) ==
    /\ qt.start_btn
    /\ qt.main.pc = "idle"
    /\ ~qt.test_running
    /\ cfg.total_size >= packet_header_size + 1
    /\ qt' = [qt EXCEPT
                !.cfg = cfg,
                !.in_waiting = QtClearedPorts,
                !.stats = [qt.stats EXCEPT
                              !.bytes_sent = 0, !.packets_sent = 0,
                              !.bytes_received_total = 0,
                              !.packets_received = 0,
                              !.start_time = qt.now, !.end_time = None,
                              !.elapsed_time = None],
                !.test_running = TRUE,
                !.target_packets = cfg.target_packets,
                !.test_end_time = IF Truthy(cfg.test_length)
                                  THEN qt.now + cfg.test_length ELSE None,
                !.receiver = [i \in QtReceivers |-> [pc |-> "start"]],
                !.sender = [QtIdleSender EXCEPT !.pc = "start"],
                !.monitor =
                    IF Truthy(cfg.test_length) \/ Truthy(cfg.target_packets)
                    THEN [pc |-> "poll",
                          use_packet_count |-> (cfg.target_packets # None
                                                /\ cfg.target_packets > 0),
                          wake |-> 0]
                    ELSE qt.monitor,
                !.start_btn = FALSE,
                !.stop_btn = TRUE,
                !.count_stop = "none",
                !.last_start = "started"]
    /\ UNCHANGED outsideQt

\* _sender_thread up to the loop
QtSenderClears ==
    /\ qt.sender.pc = "start"
    /\ qt' = [qt EXCEPT
                !.in_waiting = QtClearedPorts,
                !.sender = [pc |-> "loop", sequence |-> 0,
                            start_time |-> qt.now,
                            next_packet_time |-> qt.now]]
    /\ UNCHANGED outsideQt

\* the loop condition and the two end checks
QtSenderChecks ==
    /\ qt.sender.pc = "loop"
    /\ qt' = [qt EXCEPT
                !.sender =
                    IF ~qt.test_running THEN QtDeadSender
                    ELSE IF Truthy(qt.cfg.test_length)
                            /\ qt.now - qt.sender.start_time >= qt.cfg.test_length
                         THEN QtDeadSender
                    ELSE IF Truthy(qt.cfg.target_packets)
                            /\ qt.sender.sequence >= qt.cfg.target_packets
                         THEN QtDeadSender
                    ELSE IF qt.now < qt.sender.next_packet_time
                         THEN [qt.sender EXCEPT !.pc = "sleep"]
                    ELSE [qt.sender EXCEPT !.pc = "send"]]
    /\ UNCHANGED outsideQt

QtSenderWakes ==
    /\ qt.sender.pc = "sleep"
    /\ qt.now >= qt.sender.next_packet_time
    /\ qt' = [qt EXCEPT !.sender.pc = "send"]
    /\ UNCHANGED outsideQt

QtSenderWrites ==
    /\ qt.sender.pc = "send"
    /\ qt' = [qt EXCEPT
                !.in_waiting = [i \in QtReceivers |-> qt.in_waiting[i] + 1],
                !.stats.bytes_sent = @ + qt.cfg.total_size,
                !.stats.packets_sent = @ + 1,
                !.sender = [qt.sender EXCEPT
                               !.pc = "loop",
                               !.sequence = @ + 1,
                               !.next_packet_time = @ + qt.cfg.write_freq]]
    /\ UNCHANGED outsideQt

\* the condition of the receiver's while loop
QtReceiverContinues ==
    \/ qt.test_running
    \/ Truthy(qt.packet_count_wait_end) /\ qt.now < qt.packet_count_wait_end

QtReceiverClears(i) ==
    /\ qt.receiver[i].pc = "start"
    /\ qt' = [qt EXCEPT !.in_waiting = QtClearedPorts,
                        !.receiver[i].pc = "poll"]
    /\ UNCHANGED outsideQt

\* the loop condition holds and the port has bytes
QtReceiverEnters(i) ==
    /\ qt.receiver[i].pc = "poll"
    /\ QtReceiverContinues
    /\ qt.in_waiting[i] > 0
    /\ qt' = [qt EXCEPT !.receiver[i].pc = "body"]
    /\ UNCHANGED outsideQt

\* conn.read(conn.in_waiting) and the count of every whole frame read
QtReceiverReads(i) ==
    /\ qt.receiver[i].pc = "body"
    /\ qt' = [qt EXCEPT
                !.in_waiting[i] = 0,
                !.stats.packets_received = @ + qt.in_waiting[i],
                !.stats.bytes_received_total =
                    @ + qt.in_waiting[i] * qt.cfg.total_size,
                !.receiver[i].pc = "poll"]
    /\ UNCHANGED outsideQt

QtReceiverEnds(i) ==
    /\ qt.receiver[i].pc = "poll"
    /\ ~QtReceiverContinues
    /\ qt' = [qt EXCEPT !.receiver[i] = QtDeadThread]
    /\ UNCHANGED outsideQt

\* _monitor_test_end: the loop condition fails
QtMonitorLoopEnds ==
    /\ qt.monitor.pc = "poll"
    /\ ~qt.test_running
    /\ qt' = [qt EXCEPT !.monitor = QtDeadMonitor]
    /\ UNCHANGED outsideQt

QtTargetSeen ==
    /\ qt.monitor.use_packet_count
    /\ qt.stats.packets_sent >= qt.target_packets

QtDeadlineSeen ==
    /\ ~qt.monitor.use_packet_count
    /\ Truthy(qt.test_end_time)
    /\ qt.now >= qt.test_end_time

\* count mode: end_time captured and the flag cleared
QtMonitorTargetReached ==
    /\ qt.monitor.pc = "poll"
    /\ qt.test_running
    /\ QtTargetSeen
    /\ qt' = [qt EXCEPT !.stats.end_time = qt.now,
                        !.test_running = FALSE,
                        !.monitor.pc = "cleared"]
    /\ UNCHANGED outsideQt

QtMonitorOpensWait ==
    /\ qt.monitor.pc = "cleared"
    /\ qt' = [qt EXCEPT !.packet_count_wait_end = qt.now + QtCountWait,
                        !.monitor.pc = "wait",
                        !.monitor.wake = qt.now + QtCountWait]
    /\ UNCHANGED outsideQt

QtWaitOver ==
    \/ qt.now >= qt.monitor.wake
    \/ qt.stats.packets_received >= qt.target_packets

\* the wait is over: QTimer.singleShot(0, self._stop_test)
QtMonitorSchedulesStop ==
    /\ qt.monitor.pc = "wait"
    /\ QtWaitOver
    /\ qt' = [qt EXCEPT !.pending_stops = @ + 1,
                        !.count_stop = "queued",
                        !.monitor = QtDeadMonitor]
    /\ UNCHANGED outsideQt

\* duration mode: the flag cleared, then time.sleep(0.5)
QtMonitorDeadline ==
    /\ qt.monitor.pc = "poll"
    /\ qt.test_running
    /\ QtDeadlineSeen
    /\ qt' = [qt EXCEPT !.test_running = FALSE,
                        !.monitor.pc = "probe",
                        !.monitor.wake = qt.now + ProbeWait]
    /\ UNCHANGED outsideQt

QtMonitorProbes ==
    /\ qt.monitor.pc = "probe"
    /\ qt.now >= qt.monitor.wake
    /\ qt' = [qt EXCEPT
                !.receiver_grace_period_end =
                    IF qt.stats.packets_received > 0
                    THEN qt.now + GraceExtension ELSE @,
                !.pending_stops = @ + 1,
                !.monitor = QtDeadMonitor]
    /\ UNCHANGED outsideQt

\* _stop_test up to its first join, entered in state q
QtStopEnter(q) ==
    IF ~q.test_running /\ q.stats.end_time # None
    THEN q
    ELSE [q EXCEPT !.test_running = FALSE,
                   !.main = [pc |-> "join_sender", idx |-> 0,
                             deadline |-> q.now + JoinTimeout]]

\* the Stop button
Qt_stop_clicked ==
    /\ qt.stop_btn
    /\ qt.main.pc = "idle"
    /\ qt' = QtStopEnter(qt)
    /\ UNCHANGED outsideQt

\* a queued _stop_test, run by the event loop
Qt_stop_timer ==
    /\ qt.pending_stops > 0
    /\ qt.main.pc = "idle"
    /\ qt' = QtStopEnter([qt EXCEPT
                             !.pending_stops = @ - 1,
                             !.count_stop =
                                 IF @ = "queued" /\ qt.pending_stops = 1
                                 THEN "ran" ELSE @])
    /\ UNCHANGED outsideQt

QtJoinOver(pc) == pc \in {"none", "done"} \/ qt.now >= qt.main.deadline

QtJoinSender ==
    /\ qt.main.pc = "join_sender"
    /\ QtJoinOver(qt.sender.pc)
    /\ qt' = [qt EXCEPT !.main = [pc |-> "join_receiver", idx |-> 1,
                                  deadline |-> qt.now + JoinTimeout]]
    /\ UNCHANGED outsideQt

QtJoinReceiver ==
    /\ qt.main.pc = "join_receiver"
    /\ QtJoinOver(qt.receiver[qt.main.idx].pc)
    /\ qt' = [qt EXCEPT
                !.main = IF qt.main.idx < QtNumReceivers
                         THEN [pc |-> "join_receiver", idx |-> qt.main.idx + 1,
                               deadline |-> qt.now + JoinTimeout]
                         ELSE [pc |-> "join_monitor", idx |-> 0,
                               deadline |-> qt.now + JoinTimeout]]
    /\ UNCHANGED outsideQt

QtFinalStats(q) ==
    LET st == q.stats
        elapsed == IF Truthy(q.target_packets) /\ Truthy(st.end_time)
                   THEN st.end_time - st.start_time
                   ELSE q.now - st.start_time
        st1 == IF ~Truthy(st.start_time) THEN st
               ELSE IF elapsed > 0
               THEN [st EXCEPT
                        !.elapsed_time = elapsed,
                        !.data_rate_total_bps =
                            Rat(st.bytes_received_total * 8, elapsed),
                        !.send_rate_bps = Rat(st.bytes_sent * 8, elapsed)]
               ELSE [st EXCEPT !.elapsed_time = elapsed]
    IN [st1 EXCEPT !.end_time = q.now]

\* the monitor's join and the rest of _stop_test
QtJoinMonitor ==
    /\ qt.main.pc = "join_monitor"
    /\ QtJoinOver(qt.monitor.pc)
    /\ qt' = [qt EXCEPT !.stats = QtFinalStats(qt),
                        !.main = IdleMain,
                        !.start_btn = TRUE,
                        !.stop_btn = FALSE]
    /\ UNCHANGED outsideQt

QtSenderBlocked ==
    \/ qt.sender.pc \in {"none", "done"}
    \/ qt.sender.pc = "sleep" /\ qt.now < qt.sender.next_packet_time

QtReceiverBlocked(i) ==
    \/ qt.receiver[i].pc \in {"none", "done"}
    \/ qt.receiver[i].pc = "poll" /\ QtReceiverContinues /\ qt.in_waiting[i] = 0

QtMonitorBlocked ==
    \/ qt.monitor.pc \in {"none", "done"}
    \/ qt.monitor.pc = "poll" /\ qt.test_running
          /\ ~QtTargetSeen /\ ~QtDeadlineSeen
    \/ qt.monitor.pc = "wait" /\ ~QtWaitOver
    \/ qt.monitor.pc = "probe" /\ qt.now < qt.monitor.wake

QtMainBlocked ==
    \/ qt.main.pc = "idle" /\ qt.pending_stops = 0
    \/ qt.main.pc = "join_sender" /\ ~QtJoinOver(qt.sender.pc)
    \/ qt.main.pc = "join_receiver" /\ ~QtJoinOver(qt.receiver[qt.main.idx].pc)
    \/ qt.main.pc = "join_monitor" /\ ~QtJoinOver(qt.monitor.pc)

\* time passes once every thread of the window is waiting
QtTick ==
    /\ qt.now < MaxTime
    /\ qt.stats.start_time # None
    /\ QtSenderBlocked
    /\ \A i \in QtReceivers : QtReceiverBlocked(i)
    /\ QtMonitorBlocked
    /\ QtMainBlocked
    /\ qt' = [qt EXCEPT !.now = @ + 1]
    /\ UNCHANGED outsideQt

InitQt ==
    /\ Constructed(1)
    /\ qt = QtConstructed
    /\ tk = TkConstructed
    /\ locks = LocksIdle
    /\ script = << >>
    /\ feed = << >>
    /\ codec = IdleCodec

NextQt ==
    \/ \E cfg \in QtConfigs : Qt_start_test(cfg)
    \/ QtSenderClears \/ QtSenderChecks \/ QtSenderWakes \/ QtSenderWrites
    \/ \E i \in QtReceivers :
          \/ QtReceiverClears(i) \/ QtReceiverEnters(i)
          \/ QtReceiverReads(i) \/ QtReceiverEnds(i)
    \/ QtMonitorLoopEnds \/ QtMonitorTargetReached \/ QtMonitorOpensWait
    \/ QtMonitorSchedulesStop \/ QtMonitorDeadline \/ QtMonitorProbes
    \/ Qt_stop_clicked \/ Qt_stop_timer
    \/ QtJoinSender \/ QtJoinReceiver \/ QtJoinMonitor
    \/ QtTick

SpecQt == InitQt /\ [][NextQt]_vars

(***************************************************************************)
(* Properties of the Qt window's engine.                                   *)
(***************************************************************************)
\* C19: in the Qt engine, once the _stop_test that the count-mode monitor
\* queued after seeing packets_sent >= target has run, the run is finalized:
\* elapsed_time is set and, for a positive elapsed time, so are the data-rate
\* fields.
C19_QueuedStopFinalizes ==
    (qt.count_stop = "ran" /\ qt.main.pc = "idle")
        => /\ qt.stats.elapsed_time # None
           /\ qt.stats.elapsed_time > 0
                 => qt.stats.data_rate_total_bps # NoRate

(***************************************************************************)
(* The Tk window's engine: _start_test, the two sender and two receiver    *)
(* threads, the monitor, the Stop button and the queued _stop_test.  A     *)
(* written frame reaches the other port at once and unmodified; a port may *)
(* raise when a thread uses it.                                            *)
(***************************************************************************)
outsideTk == << now, run, engineFields, handles, workers, channels, main,
                pending_stops, lastCall, history, script, feed, codec, qt,
                locks,
                stats, receiver_stats >>

TkConfigs == { CountConfig(1, t) : t \in 1..MaxTarget } \cup { DurationConfig }

\* payload = bytes([(sequence + i) % 256 for i in range(payload_size)])
TkPayload(sequence, total_size) ==
    [k \in 1..(total_size - packet_header_size) |-> (sequence + k - 1) % 256]

TkUsePacketCount(target) == target # None /\ target > 0

Tk_start_test(cfg) ==
    /\ tk.start_button
    /\ tk.main.pc = "idle"
    /\ tk.runs < TkMaxRuns
    /\ cfg.total_size >= packet_header_size + 1
    /\ cfg.write_freq > 0
    /\ cfg.test_length = None \/ cfg.test_length > 0
    /\ cfg.target_packets = None \/ cfg.target_packets > 0
    /\ tk' = [tk EXCEPT
                !.cfg = cfg,
                !.in_waiting = [d \in TkDirections |-> << >>],
                !.stats = [TkInitStats EXCEPT !.start_time = tk.now],
                !.test_running = TRUE,
                !.start_button = FALSE,
                !.stop_button = TRUE,
                !.target_packets = cfg.target_packets,
                !.sender = [d \in TkDirections |->
                               [TkIdleSender EXCEPT !.pc = "start"]],
                !.receiver = [d \in TkDirections |->
                                 [TkIdleReceiver EXCEPT !.pc = "start"]],
                !.test_end_time = IF cfg.test_length # None
                                  THEN tk.now + cfg.test_length ELSE None,
                !.monitor = [pc |-> "poll", wake |-> 0],
                !.runs = @ + 1,
                !.port_errors = {}]
    /\ UNCHANGED outsideTk

\* _sender_thread up to the loop; its own port's input buffer is reset
TkSenderStarts(d) ==
    /\ tk.sender[d].pc = "start"
    /\ tk' = [tk EXCEPT
                !.in_waiting[TkOther(d)] = << >>,
                !.sender[d] = [pc |-> "loop",
                               sequence |-> 0,
                               end_time |-> IF Truthy(tk.cfg.test_length)
                                            THEN tk.now + tk.cfg.test_length
                                            ELSE None,
                               next_packet_time |-> tk.now]]
    /\ UNCHANGED outsideTk

\* the loop condition and the stopping conditions
TkSenderChecks(d) ==
    /\ tk.sender[d].pc = "loop"
    /\ tk' = [tk EXCEPT
                !.sender[d] =
                    IF ~tk.test_running THEN TkDeadSender
                    ELSE IF TkUsePacketCount(tk.cfg.target_packets)
                         THEN IF tk.stats.packets_sent[d] >= tk.cfg.target_packets
                              THEN TkDeadSender
                              ELSE [@ EXCEPT !.pc = "send"]
                    ELSE IF Truthy(@.end_time) /\ tk.now >= @.end_time
                         THEN TkDeadSender
                    ELSE [@ EXCEPT !.pc = "send"]]
    /\ UNCHANGED outsideTk

\* the sleep to next_packet_time, then conn.write and the counters
TkSenderWrites(d) ==
    /\ tk.sender[d].pc = "send"
    /\ tk.now >= tk.sender[d].next_packet_time
    /\ tk' = [tk EXCEPT
                !.in_waiting[d] =
                    Append(@, _create_packet(
                                  tk.sender[d].sequence,
                                  TkPayload(tk.sender[d].sequence,
                                            tk.cfg.total_size),
                                  tk.now)),
                !.stats.bytes_sent[d] = @ + tk.cfg.total_size,
                !.stats.packets_sent[d] = @ + 1,
                !.sender[d] = [@ EXCEPT
                                  !.pc = "loop",
                                  !.sequence = @ + 1,
                                  !.next_packet_time = tk.now + tk.cfg.write_freq]]
    /\ UNCHANGED outsideTk

\* conn.write raises: the except clause of _sender_thread
TkSenderRaises(d) ==
    /\ tk.sender[d].pc = "send"
    /\ tk.now >= tk.sender[d].next_packet_time
    /\ tk' = [tk EXCEPT !.sender[d] = TkDeadSender,
                        !.test_running = FALSE,
                        !.port_errors = @ \cup { << "sender", d >> }]
    /\ UNCHANGED outsideTk

\* the condition of the receiver's while loop
TkReceiverContinues ==
    \/ tk.test_running
    \/ Truthy(tk.receiver_grace_period_end)
          /\ tk.now < tk.receiver_grace_period_end
    \/ Truthy(tk.packet_count_wait_end) /\ tk.now < tk.packet_count_wait_end

\* the stopping conditions inside the loop
TkReceiverBreaks(d) ==
    /\ tk.test_running
    /\ IF TkUsePacketCount(tk.cfg.target_packets)
       THEN tk.stats.packets_received[d] >= tk.cfg.target_packets
       ELSE Truthy(tk.receiver[d].end_time) /\ tk.now >= tk.receiver[d].end_time

TkReceiverStarts(d) ==
    /\ tk.receiver[d].pc = "start"
    /\ tk' = [tk EXCEPT
                !.in_waiting[d] = << >>,
                !.receiver[d] = [pc |-> "poll",
                                 end_time |-> IF Truthy(tk.cfg.test_length)
                                              THEN tk.now + tk.cfg.test_length
                                              ELSE None]]
    /\ UNCHANGED outsideTk

TkReceiverEnds(d) ==
    /\ tk.receiver[d].pc = "poll"
    /\ ~TkReceiverContinues \/ TkReceiverBreaks(d)
    /\ tk' = [tk EXCEPT !.receiver[d] = TkDeadReceiver]
    /\ UNCHANGED outsideTk

\* the loop goes on and the port has bytes
TkReceiverEnters(d) ==
    /\ tk.receiver[d].pc = "poll"
    /\ TkReceiverContinues
    /\ ~TkReceiverBreaks(d)
    /\ tk.in_waiting[d] # << >>
    /\ tk' = [tk EXCEPT !.receiver[d].pc = "body"]
    /\ UNCHANGED outsideTk

\* the windows of `frames` whose hash check passes (_verify_packet)
TkValidCount(frames) ==
    Cardinality({ k \in 1..Len(frames) : PacketValid(frames[k]) })

\* the packet loop over the frames read: every window adds to the total
\* bytes and to packets_received; a verified one also to the valid bytes, a
\* mismatching one also to packets_corrupt
TkCountFrames(st, d, frames) ==
    LET n == Len(frames)
        v == TkValidCount(frames)
        size == tk.cfg.total_size
    IN [st EXCEPT !.bytes_received_total[d] = @ + n * size,
                  !.packets_received[d] = @ + n,
                  !.bytes_received_valid[d] = @ + v * size,
                  !.packets_corrupt[d] = @ + (n - v)]

\* conn.read(conn.in_waiting) and the count of every whole frame read
TkReceiverReads(d) ==
    /\ tk.receiver[d].pc = "body"
    /\ tk' = [tk EXCEPT
                !.in_waiting[d] = << >>,
                !.stats = TkCountFrames(@, d, tk.in_waiting[d]),
                !.grace_period_data_received =
                    \/ @
                    \/ /\ tk.in_waiting[d] # << >>
                       /\ ~tk.test_running
                       /\ Truthy(tk.receiver_grace_period_end)
                       /\ ~Truthy(tk.packet_count_wait_end),
                !.receiver[d].pc = "poll"]
    /\ UNCHANGED outsideTk

\* conn.in_waiting or conn.read raises: the except clause of _receiver_thread
TkReceiverRaises(d) ==
    /\ \/ tk.receiver[d].pc = "body"
       \/ tk.receiver[d].pc = "poll" /\ TkReceiverContinues /\ ~TkReceiverBreaks(d)
    /\ tk' = [tk EXCEPT !.receiver[d] = TkDeadReceiver,
                        !.test_running = FALSE,
                        !.port_errors = @ \cup { << "receiver", d >> }]
    /\ UNCHANGED outsideTk

\* _monitor_test_end: the loop condition fails
TkMonitorLoopEnds ==
    /\ tk.monitor.pc = "poll"
    /\ ~tk.test_running
    /\ tk' = [tk EXCEPT !.monitor = TkDeadMonitor]
    /\ UNCHANGED outsideTk

TkTargetSeen ==
    /\ TkUsePacketCount(tk.target_packets)
    /\ tk.stats.packets_sent[1] + tk.stats.packets_sent[2] >= tk.target_packets

TkDeadlineSeen ==
    /\ ~TkUsePacketCount(tk.target_packets)
    /\ Truthy(tk.test_end_time)
    /\ tk.now >= tk.test_end_time

\* count mode: end_time captured, the flag cleared, the wait begun
TkMonitorTargetReached ==
    /\ tk.monitor.pc = "poll"
    /\ tk.test_running
    /\ TkTargetSeen
    /\ tk' = [tk EXCEPT !.stats.end_time = tk.now,
                        !.test_running = FALSE,
                        !.monitor = [pc |-> "wait",
                                     wake |-> tk.now + TkCountWait]]
    /\ UNCHANGED outsideTk

TkWaitOver ==
    \/ tk.now >= tk.monitor.wake
    \/ tk.stats.packets_received[1] + tk.stats.packets_received[2]
          >= tk.target_packets

\* the wait is over: self.root.after(0, self._stop_test)
TkMonitorSchedulesStop ==
    /\ tk.monitor.pc = "wait"
    /\ TkWaitOver
    /\ tk' = [tk EXCEPT !.pending_stops = @ + 1,
                        !.monitor = TkDeadMonitor]
    /\ UNCHANGED outsideTk

\* duration mode: the test period has ended
TkMonitorDeadline ==
    /\ tk.monitor.pc = "poll"
    /\ tk.test_running
    /\ TkDeadlineSeen
    /\ tk' = [tk EXCEPT !.pending_stops = @ + 1,
                        !.monitor = TkDeadMonitor]
    /\ UNCHANGED outsideTk

\* _stop_test up to its first join, entered in state q
TkStopEnter(q) ==
    LET end_time == IF TkUsePacketCount(q.target_packets)
                    THEN q.stats.end_time ELSE q.now
    IN [q EXCEPT !.test_running = FALSE,
                 !.test_end_time = None,
                 !.stats.end_time = end_time,
                 !.main = [pc |-> "join_sender",
                           deadline |-> q.now + JoinTimeout,
                           initial_end_time |-> end_time]]

\* the Stop button
Tk_stop_clicked ==
    /\ tk.stop_button
    /\ tk.main.pc = "idle"
    /\ tk' = TkStopEnter(tk)
    /\ UNCHANGED outsideTk

\* a queued _stop_test, run by the event loop
Tk_stop_timer ==
    /\ tk.pending_stops > 0
    /\ tk.main.pc = "idle"
    /\ tk' = TkStopEnter([tk EXCEPT !.pending_stops = @ - 1])
    /\ UNCHANGED outsideTk

TkJoinOver(pc) == pc \in {"none", "done"} \/ tk.now >= tk.main.deadline

TkJoinSender ==
    /\ tk.main.pc = "join_sender"
    /\ TkJoinOver(tk.sender[1].pc)
    /\ tk' = [tk EXCEPT !.main.pc = "join_sender2",
                        !.main.deadline = tk.now + JoinTimeout]
    /\ UNCHANGED outsideTk

TkJoinSender2 ==
    /\ tk.main.pc = "join_sender2"
    /\ TkJoinOver(tk.sender[2].pc)
    /\ tk' = [tk EXCEPT !.main.pc = "join_monitor",
                        !.main.deadline = tk.now + JoinTimeout]
    /\ UNCHANGED outsideTk

TkReceiverJoinTimeout ==
    IF TkUsePacketCount(tk.target_packets) THEN JoinTimeout ELSE TkGraceJoin

\* the monitor's join, then the receivers' window is opened; in count mode
\* with no end_time captured, initial_end_time + 1.0 raises and the handler
\* ends there
TkJoinMonitor ==
    /\ tk.main.pc = "join_monitor"
    /\ TkJoinOver(tk.monitor.pc)
    /\ tk' = IF TkUsePacketCount(tk.target_packets)
             THEN IF tk.main.initial_end_time = None
                  THEN [tk EXCEPT !.main = TkIdleMain]
                  ELSE [tk EXCEPT
                           !.packet_count_wait_end =
                               tk.main.initial_end_time + TkCountWait,
                           !.main.pc = "join_receive",
                           !.main.deadline = tk.now + TkReceiverJoinTimeout]
             ELSE [tk EXCEPT
                      !.grace_period_data_received = FALSE,
                      !.receiver_grace_period_end =
                          tk.main.initial_end_time + GraceExtension,
                      !.main.pc = "join_receive",
                      !.main.deadline = tk.now + TkReceiverJoinTimeout]
    /\ UNCHANGED outsideTk

TkJoinReceive ==
    /\ tk.main.pc = "join_receive"
    /\ TkJoinOver(tk.receiver[1].pc)
    /\ tk' = [tk EXCEPT !.main.pc = "join_receiver2",
                        !.main.deadline = tk.now + TkReceiverJoinTimeout]
    /\ UNCHANGED outsideTk

TkFinalStats(q) ==
    LET end_time == IF ~TkUsePacketCount(q.target_packets)
                       /\ q.grace_period_data_received
                    THEN q.receiver_grace_period_end
                    ELSE q.main.initial_end_time
        st == [q.stats EXCEPT !.end_time = end_time]
        elapsed == IF Truthy(st.start_time) THEN end_time - st.start_time
                   ELSE 0
    IN IF elapsed > 0
       THEN [st EXCEPT
                !.elapsed_time = elapsed,
                !.data_rate_total_bps_combined =
                    Rat((st.bytes_received_total[1]
                            + st.bytes_received_total[2]) * 8, elapsed),
                !.send_rate_bps_combined =
                    Rat((st.bytes_sent[1] + st.bytes_sent[2]) * 8, elapsed)]
       ELSE [st EXCEPT !.elapsed_time = elapsed]

\* the second receiver's join and the rest of _stop_test
TkJoinReceiver2 ==
    /\ tk.main.pc = "join_receiver2"
    /\ TkJoinOver(tk.receiver[2].pc)
    /\ tk' = [tk EXCEPT
                !.stats = TkFinalStats(tk),
                !.packet_count_wait_end = None,
                !.receiver_grace_period_end = None,
                !.in_waiting = [d \in TkDirections |-> << >>],
                !.start_button = TRUE,
                !.stop_button = FALSE,
                !.main = TkIdleMain]
    /\ UNCHANGED outsideTk

TkSenderBlocked(d) ==
    \/ tk.sender[d].pc \in {"none", "done"}
    \/ tk.sender[d].pc = "send" /\ tk.now < tk.sender[d].next_packet_time

TkReceiverBlocked(d) ==
    \/ tk.receiver[d].pc \in {"none", "done"}
    \/ /\ tk.receiver[d].pc = "poll"
       /\ TkReceiverContinues
       /\ ~TkReceiverBreaks(d)
       /\ tk.in_waiting[d] = << >>

TkMonitorBlocked ==
    \/ tk.monitor.pc \in {"none", "done"}
    \/ tk.monitor.pc = "poll" /\ tk.test_running
          /\ ~TkTargetSeen /\ ~TkDeadlineSeen
    \/ tk.monitor.pc = "wait" /\ ~TkWaitOver

TkMainBlocked ==
    \/ tk.main.pc = "idle" /\ tk.pending_stops = 0
    \/ tk.main.pc = "join_sender" /\ ~TkJoinOver(tk.sender[1].pc)
    \/ tk.main.pc = "join_sender2" /\ ~TkJoinOver(tk.sender[2].pc)
    \/ tk.main.pc = "join_monitor" /\ ~TkJoinOver(tk.monitor.pc)
    \/ tk.main.pc = "join_receive" /\ ~TkJoinOver(tk.receiver[1].pc)
    \/ tk.main.pc = "join_receiver2" /\ ~TkJoinOver(tk.receiver[2].pc)

\* time passes once every thread of the window is waiting
TkTick ==
    /\ tk.now < MaxTime
    /\ tk.stats.start_time # None
    /\ \A d \in TkDirections : TkSenderBlocked(d) /\ TkReceiverBlocked(d)
    /\ TkMonitorBlocked
    /\ TkMainBlocked
    /\ tk' = [tk EXCEPT !.now = @ + 1]
    /\ UNCHANGED outsideTk

InitTk ==
    /\ Constructed(1)
    /\ qt = QtConstructed
    /\ tk = TkConstructed
    /\ locks = LocksIdle
    /\ script = << >>
    /\ feed = << >>
    /\ codec = IdleCodec

NextTk ==
    \/ \E cfg \in TkConfigs : Tk_start_test(cfg)
    \/ \E d \in TkDirections :
          \/ TkSenderStarts(d) \/ TkSenderChecks(d)
          \/ TkSenderWrites(d) \/ TkSenderRaises(d)
          \/ TkReceiverStarts(d) \/ TkReceiverEnters(d)
          \/ TkReceiverReads(d) \/ TkReceiverEnds(d)
          \/ TkReceiverRaises(d)
    \/ TkMonitorLoopEnds \/ TkMonitorTargetReached
    \/ TkMonitorSchedulesStop \/ TkMonitorDeadline
    \/ Tk_stop_clicked \/ Tk_stop_timer
    \/ TkJoinSender \/ TkJoinSender2 \/ TkJoinMonitor
    \/ TkJoinReceive \/ TkJoinReceiver2
    \/ TkTick

SpecTk == InitTk /\ [][NextTk]_vars

(***************************************************************************)
(* Properties of the Tk window's engine.                                   *)
(***************************************************************************)
\* C16: in the Tk engine, a step in which one receiver thread ends on an
\* exception leaves test_running, both sender threads and the other
\* direction's receiver thread as they were.
C16_ReceiverErrorEndsOnlyThatReceiver ==
    [][\A d \in TkDirections :
          (/\ << "receiver", d >> \notin tk.port_errors
           /\ << "receiver", d >> \in tk.port_errors')
              => /\ tk.test_running' = tk.test_running
                 /\ tk.sender' = tk.sender
                 /\ tk.receiver[TkOther(d)]' = tk.receiver[TkOther(d)]]_vars

(***************************************************************************)
(* The engine with latency: the clock may also advance while the sender    *)
(* thread is at its send point (a sleep that overshoots, a thread the      *)
(* scheduler keeps waiting), so a send can start after its fire time.      *)
(***************************************************************************)
Stall ==
    /\ now < MaxTime
    /\ \E r \in Runs : SenderAtSend(r)
    /\ now' = now + 1
    /\ UNCHANGED << run, engineFields, handles, stats, receiver_stats, workers,
                    channels, main, pending_stops, history, harness >>
    /\ lastCall' = "none"

PaceScripts == { << CountConfig(1, MaxTarget) >>, << DurationConfig >> }

InitPace ==
    /\ Constructed(1)
    /\ qt = QtConstructed
    /\ tk = TkConstructed
    /\ locks = LocksIdle
    /\ script \in PaceScripts
    /\ feed = <<>>
    /\ codec = IdleCodec

\* runs that only the monitor's auto-stop ends
NextPace ==
    \/ \E c \in Configs : start_test(c)
    \/ stop_test_timer
    \/ JoinSender
    \/ JoinReceiver
    \/ Finalize
    \/ \E r \in Runs :
          \/ SenderStart(r)
          \/ SenderExit(r)
          \/ SenderSleep(r)
          \/ SenderWrite(r)
          \/ MonitorTargetReached(r)
          \/ MonitorOpensDrain(r)
          \/ MonitorDeadline(r)
          \/ MonitorDrainWake(r)
          \/ MonitorProbeWake(r)
    \/ \E r \in Runs : \E i \in Receivers :
          \/ ReceiverStart(r, i)
          \/ ReceiverExit(r, i)
          \/ ReceiverRead(r, i)
          \/ ReceiverProcess(r, i)
    \/ \E i \in Receivers : Deliver(i)
    \/ Tick
    \/ Stall

SpecPace == InitPace /\ [][NextPace]_vars

(***************************************************************************)
(* Properties of the sender's pacing.                                      *)
(***************************************************************************)
\* the sender thread of run r is inside its loop
SenderPacing(r) == sender[r].pc \in {"loop", "sleep"}

\* C21: after the k-th successful send of a sender thread its next fire time
\* is its start time plus k intervals, however late the sends were made.
C21_FireTimeOnSchedule ==
    \A r \in Runs :
        SenderPacing(r) =>
            sender[r].next_packet_time
                = sender[r].start_time
                      + sender[r].sequence * sender[r].cfg.write_freq

\* the last send of a pacing sender started after its fire time
C21_SentLate ==
    \E r \in Runs :
        /\ SenderPacing(r)
        /\ sender[r].sequence >= 1
        /\ sender[r].cfg.write_freq > 0
        /\ sender[r].last_write
              > sender[r].start_time
                    + (sender[r].sequence - 1) * sender[r].cfg.write_freq

(***************************************************************************)
(* The Tk window's engine with latency: the clock may also advance while a *)
(* sender thread is at its send point.  Count-mode runs, ended by the      *)
(* monitor's stop.                                                         *)
(***************************************************************************)
TkStall ==
    /\ tk.now < MaxTime
    /\ \E d \in TkDirections :
          tk.sender[d].pc = "send" /\ tk.now >= tk.sender[d].next_packet_time
    /\ tk' = [tk EXCEPT !.now = @ + 1]
    /\ UNCHANGED outsideTk

TkPaceConfigs == { CountConfig(1, t) : t \in 1..MaxTarget }

NextTkPace ==
    \/ \E cfg \in TkPaceConfigs : Tk_start_test(cfg)
    \/ \E d \in TkDirections :
          \/ TkSenderStarts(d) \/ TkSenderChecks(d) \/ TkSenderWrites(d)
          \/ TkReceiverStarts(d) \/ TkReceiverEnters(d)
          \/ TkReceiverReads(d) \/ TkReceiverEnds(d)
    \/ TkMonitorTargetReached \/ TkMonitorSchedulesStop
    \/ Tk_stop_timer
    \/ TkJoinSender \/ TkJoinSender2 \/ TkJoinMonitor
    \/ TkJoinReceive \/ TkJoinReceiver2
    \/ TkTick
    \/ TkStall

SpecTkPace == InitTk /\ [][NextTkPace]_vars

\* C22: in the Tk engine every send of a sender thread moves its next fire
\* time on by exactly one interval from the previous scheduled fire time,
\* also when the send started late.
C22_TkFireTimeOnSchedule ==
    [][\A d \in TkDirections :
          tk.stats.packets_sent[d]' = tk.stats.packets_sent[d] + 1
              => tk.sender[d].next_packet_time'
                    = tk.sender[d].next_packet_time + tk.cfg.write_freq]_vars

\* the sender thread of run r writes a frame in this step
SenderWrote(r) == sender[r].sequence' = sender[r].sequence + 1

\* the sender thread of run r is past the end checks of its loop, later than
\* its next fire time
SenderLate(r) ==
    /\ sender[r].pc = "loop"
    /\ ~SenderStops(r)
    /\ now > sender[r].next_packet_time

\* C23: a sender thread that reaches its send point later than its next fire
\* time sends at once, without sleeping, and moves the schedule on by exactly
\* one interval; and every frame written in a run carries the number of
\* frames the run had sent before it, so the run's sequence numbers are
\* 0, 1, ..., packets_sent-1 in order, with no gap and no repeat.
C23_LateSendAndSequence ==
    [][\A r \in Runs :
          /\ (SenderLate(r) /\ sender[r]' # sender[r])
                => /\ SenderWrote(r)
                   /\ sender[r].pc' = "loop"
                   /\ sender[r].next_packet_time'
                         = sender[r].next_packet_time + sender[r].cfg.write_freq
          /\ SenderWrote(r) => sender[r].sequence = stats.packets_sent]_vars

(***************************************************************************)
(* The summary harness with every receive channel active: the sender's     *)
(* frame reaches every channel, the fed frames reach channel 1.            *)
(***************************************************************************)
InitWindows ==
    /\ Constructed(NumReceivers)
    /\ qt = QtConstructed
    /\ tk = TkConstructed
    /\ locks = LocksIdle
    /\ script = << ManualConfig >>
    /\ feed \in { GoodFrame, BadFrame }
    /\ codec = IdleCodec

SpecWindows == InitWindows /\ [][NextReport]_vars

\* the receiver of channel i in run r takes a window from its buffer
TakesWindow(r, i) ==
    /\ receiver[r][i].pc = "process"
    /\ receiver[r][i].buffer' # receiver[r][i].buffer

\* C24: for each window of frameSize bytes the receiver of channel i takes
\* from its buffer: with a valid hash, channel i's packets_received rises by
\* 1 and its bytes_received_valid and bytes_received_total by frameSize; with
\* a hash mismatch, its packets_corrupt rises by 1 and bytes_received_total
\* by frameSize, packets_received and bytes_received_valid staying; in both
\* cases exactly the window leaves the buffer and no other channel's counters
\* change.
C24_WindowCounted ==
    [][\A r \in Runs : \A i \in Receivers :
          TakesWindow(r, i) =>
              LET me == receiver[r][i]
                  window == SubSeq(me.buffer, 1, me.size)
                  old == receiver_stats[i]
                  new == receiver_stats[i]'
              IN /\ receiver[r][i].buffer'
                       = SubSeq(me.buffer, me.size + 1, Len(me.buffer))
                 /\ new.bytes_received_total = old.bytes_received_total + me.size
                 /\ IF PacketValid(window)
                    THEN /\ new.packets_received = old.packets_received + 1
                         /\ new.bytes_received_valid
                               = old.bytes_received_valid + me.size
                         /\ new.packets_corrupt = old.packets_corrupt
                    ELSE /\ new.packets_corrupt = old.packets_corrupt + 1
                         /\ new.packets_received = old.packets_received
                         /\ new.bytes_received_valid = old.bytes_received_valid
                 /\ \A j \in Receivers \ {i} :
                       receiver_stats[j]' = receiver_stats[j]]_vars

\* channel 1 has counted a valid and a corrupt window, channel 2 a valid one
C24_BothVerdictsCounted ==
    /\ active_receivers >= 2
    /\ receiver_stats[1].packets_received >= 1
    /\ receiver_stats[1].packets_corrupt >= 1
    /\ receiver_stats[2].packets_received >= 1


\* ------------------------------------------------------------------------
\* The Tk receiver on a noisy link
\* ------------------------------------------------------------------------

\* the link damages the newest frame waiting at the receiver of direction d:
\* the last byte that conn.read will return for it differs from the one sent
TkCorrupts(d) ==
    LET q == tk.in_waiting[d]
        n == Len(q)
    IN /\ n > 0
       /\ PacketValid(q[n])
       /\ tk' = [tk EXCEPT
                   !.in_waiting[d][n][Len(q[n])] = (@ + 1) % 256]
       /\ UNCHANGED outsideTk

NextTkNoise ==
    \/ \E cfg \in TkPaceConfigs : Tk_start_test(cfg)
    \/ \E d \in TkDirections :
          \/ TkSenderStarts(d) \/ TkSenderChecks(d) \/ TkSenderWrites(d)
          \/ TkReceiverStarts(d) \/ TkReceiverEnters(d)
          \/ TkReceiverReads(d) \/ TkReceiverEnds(d)
          \/ TkCorrupts(d)
    \/ TkMonitorTargetReached \/ TkMonitorSchedulesStop
    \/ Tk_stop_timer
    \/ TkJoinSender \/ TkJoinSender2 \/ TkJoinMonitor
    \/ TkJoinReceive \/ TkJoinReceiver2
    \/ TkTick

SpecTkNoise == InitTk /\ [][NextTkNoise]_vars

\* C25: in the Tk receiver a step that counts a hash-mismatch frame (it
\* raises packets_corrupt and bytes_received_total) raises packets_received
\* only by the number of frames of that read whose hash validated.
C25_TkCorruptNotReceived ==
    [][\A d \in TkDirections :
          LET corrupt == tk.stats.packets_corrupt[d]' - tk.stats.packets_corrupt[d]
              valid == (tk.stats.bytes_received_valid[d]'
                           - tk.stats.bytes_received_valid[d])
                       \div tk.cfg.total_size
          IN (tk.receiver[d].pc = "body" /\ corrupt > 0)
                => /\ tk.stats.bytes_received_total[d]'
                         > tk.stats.bytes_received_total[d]
                   /\ tk.stats.packets_received[d]'
                         = tk.stats.packets_received[d] + valid]_vars


(***************************************************************************)
(* The number of active receive channels changed while a test runs.        *)
(* set_active_receivers has no guard on test_running; SpecChannels takes   *)
(* the calls made during a run, from either number of channels active at   *)
(* the start.                                                              *)
(***************************************************************************)
\* count = max(1, min(count, self.num_receivers))
ClampCount(count) ==
    IF count < 1 THEN 1 ELSE IF count > NumReceivers THEN NumReceivers ELSE count

set_active_receivers(requested) ==
    LET count == ClampCount(requested)
        previous == active_receivers
        removed == { i \in Receivers : count < i /\ i <= previous }
        added == { i \in Receivers : previous < i /\ i <= count }
    IN /\ main.pc = "idle"
       /\ test_running
       /\ count # active_receivers
       /\ active_receivers' = count
       \* disconnect_receiver(idx): conn.close()
       /\ receiver' = [r \in Runs |-> [i \in Receivers |->
                         IF i \in removed
                         THEN [receiver[r][i] EXCEPT !.closed = TRUE]
                         ELSE receiver[r][i]]]
       \* _reset_receiver_stats(idx)
       /\ receiver_stats' = [i \in Receivers |->
                               IF i \in removed \cup added
                               THEN _create_empty_receiver_stats
                               ELSE receiver_stats[i]]
       /\ UNCHANGED << now, run, test_running, test_end_time, target_packets,
                       receiver_grace_period_end, current_write_interval,
                       handles, stats, sender, monitor, channels, main,
                       pending_stops, history, harness >>
       /\ lastCall' = "set_active_receivers"

\* the thread's port was closed under it: "if not conn.is_open: return" at
\* its start, or conn.in_waiting raises and the except clause breaks
ReceiverOnClosedPort(r, i) ==
    /\ receiver[r][i].closed
    /\ \/ receiver[r][i].pc = "start"
       \/ receiver[r][i].pc = "poll" /\ ReceiverContinues
    /\ receiver' = [receiver EXCEPT ![r][i] = DeadReceiver]
    /\ UNCHANGED << now, run, engineFields, handles, stats, receiver_stats,
                    sender, monitor, channels, main, pending_stops, history,
                    harness >>
    /\ lastCall' = "none"

InitChannels ==
    /\ \E count \in Receivers : Constructed(count)
    /\ qt = QtConstructed
    /\ tk = TkConstructed
    /\ locks = LocksIdle
    /\ script = << CountConfig(1, MaxTarget) >>
    /\ feed = <<>>
    /\ codec = IdleCodec

NextChannels ==
    \/ \E c \in Configs : start_test(c)
    \/ stop_test_timer
    \/ JoinSender
    \/ JoinReceiver
    \/ Finalize
    \/ \E r \in Runs :
          \/ SenderStart(r)
          \/ SenderExit(r)
          \/ SenderSleep(r)
          \/ SenderWrite(r)
          \/ MonitorTargetReached(r)
          \/ MonitorOpensDrain(r)
          \/ MonitorDrainWake(r)
    \/ \E r \in Runs : \E i \in Receivers :
          \/ ReceiverStart(r, i)
          \/ ReceiverExit(r, i)
          \/ ReceiverRead(r, i)
          \/ ReceiverProcess(r, i)
    \/ \E i \in Receivers : Deliver(i)
    \/ Tick
    \/ \E requested \in 0..(NumReceivers + 1) : set_active_receivers(requested)
    \/ \E r \in Runs : \E i \in Receivers : ReceiverOnClosedPort(r, i)

SpecChannels == InitChannels /\ [][NextChannels]_vars

\* the combined figure of `field` under the averaging policy
ActiveAverage(field) ==
    Rat(SumOver(receiver_stats, ActiveStats(receiver_stats), field),
        active_receivers)

\* C26: during a run and once it is finalized, combined packets_received,
\* packets_corrupt, bytes_received_total and bytes_received_valid are each the
\* sum of that counter over the active channels divided by the number of
\* active channels.
C26_CombinedIsActiveAverage ==
    (test_running \/ Finalized) =>
        /\ stats.packets_received = ActiveAverage("packets_received")
        /\ stats.packets_corrupt = ActiveAverage("packets_corrupt")
        /\ stats.bytes_received_total = ActiveAverage("bytes_received_total")
        /\ stats.bytes_received_valid = ActiveAverage("bytes_received_valid")


(***************************************************************************)
(* The periodic read of the figures.  The window's update timer calls      *)
(* update_statistics on the GUI thread, during a run and after it.         *)
(***************************************************************************)
\* the combined rates update_statistics stores while the test runs
LiveRates(st) ==
    LET running_elapsed == now - st.start_time
    IN IF test_running /\ Truthy(st.start_time) /\ running_elapsed > 0
       THEN [st EXCEPT
               !.data_rate_total_bps =
                   RatDiv(RatMul(st.bytes_received_total, 8), running_elapsed),
               !.data_rate_valid_bps =
                   RatDiv(RatMul(st.bytes_received_valid, 8), running_elapsed),
               !.send_rate_bps = Rat(st.bytes_sent * 8, running_elapsed)]
       ELSE st

\* elapsed_for_rates: the finalized elapsed time, else the running one
ElapsedForRates(st) ==
    IF st.elapsed_time # None THEN st.elapsed_time
    ELSE IF test_running /\ Truthy(st.start_time) THEN now - st.start_time
    ELSE None

update_statistics ==
    /\ main.pc = "idle"
    /\ stats' = LiveRates(stats)
    /\ receiver_stats' =
          update_receiver_figures(
              [stats EXCEPT !.elapsed_time = ElapsedForRates(stats)],
              receiver_stats)
    /\ lastCall' = "update_statistics"
    /\ UNCHANGED << now, run, engineFields, handles, workers, channels, main,
                    pending_stops, history, harness >>

NextLive ==
    \/ \E c \in Configs : start_test(c)
    \/ stop_test_timer
    \/ JoinSender
    \/ JoinReceiver
    \/ Finalize
    \/ \E r \in Runs :
          \/ SenderStart(r)
          \/ SenderExit(r)
          \/ SenderSleep(r)
          \/ SenderWrite(r)
          \/ MonitorTargetReached(r)
          \/ MonitorOpensDrain(r)
          \/ MonitorDeadline(r)
          \/ MonitorDrainWake(r)
          \/ MonitorProbeWake(r)
    \/ \E r \in Runs : \E i \in Receivers :
          \/ ReceiverStart(r, i)
          \/ ReceiverExit(r, i)
          \/ ReceiverRead(r, i)
          \/ ReceiverProcess(r, i)
    \/ \E i \in Receivers : Deliver(i)
    \/ Tick
    \/ update_statistics

SpecLive == InitPace /\ [][NextLive]_vars

\* C27: a call of update_statistics made while test_running is true leaves
\* the combined total rate, valid rate and send rate as they were.
C27_LiveReadLeavesRates ==
    [][(test_running /\ lastCall' = "update_statistics")
          => /\ stats.data_rate_total_bps' = stats.data_rate_total_bps
             /\ stats.data_rate_valid_bps' = stats.data_rate_valid_bps
             /\ stats.send_rate_bps' = stats.send_rate_bps]_vars


(***************************************************************************)
(* The finalized result.                                                   *)
(***************************************************************************)
\* the figures of a result: the counters, the latency buffers, the elapsed
\* time and the rates
ResultFigures ==
    << stats.bytes_sent, stats.packets_sent, stats.packets_received,
       stats.packets_corrupt, stats.bytes_received, stats.bytes_received_total,
       stats.bytes_received_valid, stats.latency_samples, stats.elapsed_time,
       stats.data_rate_total_bps, stats.data_rate_valid_bps,
       stats.send_rate_bps, receiver_stats >>

\* C28: from a state in which stop_test has finalized the run, a step that is
\* not an accepted start_test changes no counter, no latency buffer, not the
\* elapsed time and no rate.
C28_FinalizedResultFrozen ==
    [][(Finalized /\ ~test_running') => ResultFigures' = ResultFigures]_vars


(***************************************************************************)
(* stats_mutex.  The run of LocksStarted, each lock(), each statement      *)
(* between lock() and unlock(), and each statement outside them a step.    *)
(* The clock does not move in it, so every latency is 0; the frames are    *)
(* valid; the run ends when the monitor has seen the target.               *)
(***************************************************************************)
outsideLocks == << now, run, engineFields, handles, workers, channels, main,
                   pending_stops, lastCall, history, script, feed, codec, qt,
                   tk, stats, receiver_stats >>

\* "while self.test_running" is false, or sequence >= target_packets: break
LocksSenderExits ==
    /\ locks.sender = "loop"
    /\ ~locks.test_running \/ locks.packets_sent >= MaxTarget
    /\ locks' = [locks EXCEPT !.sender = "done"]
    /\ UNCHANGED outsideLocks

\* conn.write(packet); conn.flush()
LocksSenderWrites ==
    /\ locks.sender = "loop"
    /\ locks.test_running /\ locks.packets_sent < MaxTarget
    /\ locks' = [locks EXCEPT !.in_waiting = @ + 1, !.sender = "lock"]
    /\ UNCHANGED outsideLocks

LocksSenderLocks ==
    /\ locks.sender = "lock"
    /\ locks.stats_mutex = "free"
    /\ locks' = [locks EXCEPT !.stats_mutex = "sender", !.sender = "locked"]
    /\ UNCHANGED outsideLocks

\* bytes_sent and packets_sent are raised, then unlock()
LocksSenderCounts ==
    /\ locks.sender = "locked"
    /\ locks' = [locks EXCEPT !.packets_sent = @ + 1,
                              !.stats_mutex = "free", !.sender = "loop"]
    /\ UNCHANGED outsideLocks

LocksReceiverExits ==
    /\ locks.receiver = "poll"
    /\ ~locks.test_running
    /\ locks' = [locks EXCEPT !.receiver = "done"]
    /\ UNCHANGED outsideLocks

\* data = conn.read(conn.in_waiting); buffer += data
LocksReceiverReads ==
    /\ locks.receiver = "poll"
    /\ locks.test_running
    /\ locks.in_waiting > 0
    /\ locks' = [locks EXCEPT !.buffer = @ + locks.in_waiting,
                              !.in_waiting = 0, !.receiver = "window"]
    /\ UNCHANGED outsideLocks

\* valid = self._validate_packet(packet, latency_store), which appends the
\* latency to the channel's deque; stats_mutex.lock() comes after it
LocksReceiverValidates ==
    /\ locks.receiver = "window"
    /\ IF locks.buffer > 0
       THEN locks' = [locks EXCEPT
                        !.buffer = @ - 1,
                        !.latency_samples = DequeAppend(@, 0),
                        !.receiver = "lock"]
       ELSE locks' = [locks EXCEPT !.receiver = "poll"]
    /\ UNCHANGED outsideLocks

LocksReceiverLocks ==
    /\ locks.receiver = "lock"
    /\ locks.stats_mutex = "free"
    /\ locks' = [locks EXCEPT !.stats_mutex = "receiver",
                              !.receiver = "locked"]
    /\ UNCHANGED outsideLocks

\* the channel's counters, _recalculate_receiver_totals, unlock()
LocksReceiverCounts ==
    /\ locks.receiver = "locked"
    /\ locks' = [locks EXCEPT !.packets_received = @ + 1,
                              !.stats_mutex = "free", !.receiver = "window"]
    /\ UNCHANGED outsideLocks

LocksMonitorLocks ==
    /\ locks.monitor = "loop"
    /\ locks.test_running
    /\ locks.stats_mutex = "free"
    /\ locks' = [locks EXCEPT !.stats_mutex = "monitor", !.monitor = "locked"]
    /\ UNCHANGED outsideLocks

\* sent = self.stats['packets_sent']; unlock()
LocksMonitorReads ==
    /\ locks.monitor = "locked"
    /\ locks' = [locks EXCEPT !.sent = locks.packets_sent,
                              !.stats_mutex = "free", !.monitor = "check"]
    /\ UNCHANGED outsideLocks

\* sent >= target: self.stats['end_time'] = time.time(); test_running = False
LocksMonitorCaptures ==
    /\ locks.monitor = "check"
    /\ IF locks.sent >= MaxTarget
       THEN locks' = [locks EXCEPT !.end_time = now, !.test_running = FALSE,
                                   !.monitor = "done"]
       ELSE locks' = [locks EXCEPT !.monitor = "loop"]
    /\ UNCHANGED outsideLocks

\* update_statistics: stats_mutex.lock()
LocksGuiLocks ==
    /\ locks.gui = "idle"
    /\ locks.test_running
    /\ locks.stats_mutex = "free"
    /\ locks' = [locks EXCEPT !.stats_mutex = "gui", !.gui = "locked"]
    /\ UNCHANGED outsideLocks

\* sum(rstat['latency_samples']) / len(rstat['latency_samples']); unlock()
LocksGuiReads ==
    /\ locks.gui = "locked"
    /\ locks' = [locks EXCEPT
                   !.avg_latency =
                       IF locks.latency_samples # << >>
                       THEN Rat(SumSeq(locks.latency_samples),
                                Len(locks.latency_samples))
                       ELSE NoRate,
                   !.stats_mutex = "free", !.gui = "idle"]
    /\ UNCHANGED outsideLocks

InitLocks ==
    /\ Constructed(1)
    /\ qt = QtConstructed
    /\ tk = TkConstructed
    /\ locks = LocksStarted
    /\ script = << >>
    /\ feed = <<>>
    /\ codec = IdleCodec

NextLocks ==
    \/ LocksSenderExits \/ LocksSenderWrites
    \/ LocksSenderLocks \/ LocksSenderCounts
    \/ LocksReceiverExits \/ LocksReceiverReads \/ LocksReceiverValidates
    \/ LocksReceiverLocks \/ LocksReceiverCounts
    \/ LocksMonitorLocks \/ LocksMonitorReads \/ LocksMonitorCaptures
    \/ LocksGuiLocks \/ LocksGuiReads

SpecLocks == InitLocks /\ [][NextLocks]_vars

\* C29: during a run every step that writes a counter, a latency buffer or
\* end_time is taken by the thread that holds stats_mutex, and no latency is
\* appended while update_statistics is between its lock and its unlock.
C29_WritesHoldMutex ==
    [][/\ locks.packets_sent' # locks.packets_sent
            => locks.stats_mutex = "sender"
       /\ locks.packets_received' # locks.packets_received
            => locks.stats_mutex = "receiver"
       /\ locks.latency_samples' # locks.latency_samples
            => locks.stats_mutex = "receiver" /\ locks.gui # "locked"
       /\ locks.end_time' # locks.end_time
            => locks.stats_mutex = "monitor"]_vars


(***************************************************************************)
(* The worker threads alive at one time.                                   *)
(***************************************************************************)
\* C30: at any time at most one sender thread, at most one monitor thread
\* and, on every receive channel, at most one receiver thread is alive.
C30_OneWorkerOfEachKind ==
    /\ Cardinality({ r \in Runs : SenderAlive(r) }) <= 1
    /\ Cardinality({ r \in Runs : MonitorAlive(r) }) <= 1
    /\ \A i \in Receivers :
          Cardinality({ r \in Runs : ReceiverAlive(r, i) }) <= 1


(***************************************************************************)
(* The joins of stop_test that time out.                                   *)
(***************************************************************************)
\* a worker stop_test has joined is still alive as stop_test finalizes: its
\* join(timeout=2.0) returned on the timeout
JoinTimedOut ==
    \/ test_thread # None /\ SenderAlive(test_thread)
    \/ monitor_thread # None /\ MonitorAlive(monitor_thread)
    \/ \E i \in Receivers : run > 0 /\ ReceiverAlive(run, i)

\* an entry of the log that is not the banner or a statistics block
FailureEntry(entries) ==
    \E k \in 1..Len(entries) :
        \A j \in 1..Len(StopLogEntries) : entries[k] # StopLogEntries[j]

\* C31: when stop_test finalizes although a worker it joined is still alive,
\* the entries it wrote to the log include a failure entry.
C31_JoinTimeoutLogged ==
    [][(lastCall' = "stop_final" /\ JoinTimedOut) => FailureEntry(stop_log')]_vars


(***************************************************************************)
(* _parse_packet of the Tk window, applied to byte strings of every length *)
(* from empty to a header with a short payload.                            *)
(***************************************************************************)
\* the None _parse_packet returns for a string that holds no frame
NoFrame == [ frame |-> FALSE ]

\* A plausible slip: a frame of exactly the header's length is refused.
ParseRefusesHeaderOnly(data) ==
    IF Len(data) <= packet_header_size
    THEN NoFrame
    ELSE [ frame |-> TRUE,
           sequence |-> UnpackU32(SubSeq(data, 1, 4)),
           timestamp |-> SubSeq(data, 5, 12),
           packet_hash |-> SubSeq(data, 13, 44),
           payload |-> SubSeq(data, 45, Len(data)) ]

\* _parse_packet(data): None, or (sequence, timestamp, packet_hash, payload).
\* struct.unpack('!d', ...) accepts any eight bytes; the double it returns is
\* kept as those eight bytes.
_parse_packet(data) ==
    IF Len(data) < packet_header_size
    THEN NoFrame
    ELSE [ frame |-> TRUE,
           sequence |-> UnpackU32(SubSeq(data, 1, 4)),
           timestamp |-> SubSeq(data, 5, 12),
           packet_hash |-> SubSeq(data, 13, 44),
           payload |-> SubSeq(data, 45, Len(data)) ]

\* the byte strings parsed: all zero, every byte its own offset, and bytes
\* that differ from their neighbours and from their offset
ParseLengths == 0..(packet_header_size + MaxPayloadLen + 1)
ParseInputs ==
    UNION { { [k \in 1..n |-> 0],
              [k \in 1..n |-> (k - 1) % 256],
              [k \in 1..n |-> (100 + 7 * k) % 256] } : n \in ParseLengths }

TkParses ==
    /\ codec.pc = "input"
    /\ codec' = [codec EXCEPT !.pc = "parsed",
                              !.parsed = _parse_packet(codec.data)]
    /\ UNCHANGED << engine, stats, receiver_stats >>

InitParse ==
    /\ Constructed(1)
    /\ qt = QtConstructed
    /\ tk = TkConstructed
    /\ locks = LocksIdle
    /\ script = << ManualConfig >>
    /\ feed = <<>>
    /\ codec \in { [ pc |-> "input", data |-> d, parsed |-> NoFrame ] :
                      d \in ParseInputs }

NextParse == TkParses

SpecParse == InitParse /\ [][NextParse]_vars

\* C32: _parse_packet returns no frame exactly for inputs shorter than 44
\* bytes; for longer inputs the four fields it returns are the input cut at
\* offsets 4, 12 and 44.
C32_ParseSplitsAtOffsets ==
    codec.pc = "parsed" =>
        IF Len(codec.data) < 44
        THEN codec.parsed = NoFrame
        ELSE /\ codec.parsed.frame
             /\ Len(codec.parsed.timestamp) = 8
             /\ Len(codec.parsed.packet_hash) = 32
             /\ PackU32(codec.parsed.sequence) \o codec.parsed.timestamp
                   \o codec.parsed.packet_hash \o codec.parsed.payload
                  = codec.data

\* a frame of exactly 44 bytes has been parsed, with an empty payload
C32_HeaderOnlyParsed ==
    /\ codec.pc = "parsed"
    /\ Len(codec.data) = 44
    /\ codec.parsed.frame
    /\ codec.parsed.payload = << >>
    /\ codec.parsed.sequence > 0


(***************************************************************************)
(* The sender after the flag was cleared.                                  *)
(***************************************************************************)
\* C33: in a state in which test_running is false no sender thread writes a
\* frame, and packets_sent does not grow.
C33_NoSendAfterClear ==
    [][~test_running =>
          /\ stats.packets_sent' <= stats.packets_sent
          /\ \A r \in Runs : sender[r].sequence' <= sender[r].sequence]_vars


(***************************************************************************)
(* _start_test of the Qt window with a check that fails: the direction     *)
(* combo is not "Sender -> Receiver", or a receive port is not open.       *)
(* Both checks come after the statistics were reset and test_running was   *)
(* set, and both return at once.                                           *)
(***************************************************************************)
Qt_start_test_unready(cfg) ==
    /\ qt.start_btn
    /\ qt.main.pc = "idle"
    /\ ~qt.test_running
    /\ cfg.total_size >= packet_header_size + 1
    /\ qt' = [qt EXCEPT
                !.in_waiting = QtClearedPorts,
                !.stats = [qt.stats EXCEPT
                              !.bytes_sent = 0, !.packets_sent = 0,
                              !.bytes_received_total = 0,
                              !.packets_received = 0,
                              !.start_time = qt.now, !.end_time = None,
                              !.elapsed_time = None],
                !.test_running = TRUE,
                !.target_packets = cfg.target_packets,
                !.test_end_time = IF Truthy(cfg.test_length)
                                  THEN qt.now + cfg.test_length ELSE None,
                !.last_start = "returned early"]
    /\ UNCHANGED outsideQt

NextQtChecks ==
    \/ NextQt
    \/ \E cfg \in QtConfigs : Qt_start_test_unready(cfg)

SpecQtChecks == InitQt /\ [][NextQtChecks]_vars

\* no thread of the Qt engine is alive
QtNoWorker ==
    /\ qt.sender.pc \in {"none", "done"}
    /\ qt.monitor.pc \in {"none", "done"}
    /\ \A i \in QtReceivers : qt.receiver[i].pc \in {"none", "done"}

\* C34: after a _start_test that returned early on a failed check the Qt
\* engine is idle: test_running is false, no worker runs, and a valid
\* _start_test would be accepted.
C34_RefusedStartLeavesIdle ==
    qt.last_start = "returned early" =>
        /\ ~qt.test_running
        /\ QtNoWorker
        /\ qt.start_btn


(***************************************************************************)
(* The stop a monitor queued, run after a restart.                         *)
(***************************************************************************)
\* the event loop runs a queued stop_test, and it is not the no-op
QueuedStopRuns == pending_stops' < pending_stops /\ lastCall' = "stop_begun"

\* C35: a stop_test queued by a monitor never ends a later run.  A monitor
\* clears test_running before it queues its stop and only start_test sets
\* the flag, so the queued stop of a run finds the flag false unless a later
\* run was started in between: a queued stop that runs never finds
\* test_running true.
C35_QueuedStopSparesNextRun ==
    [][QueuedStopRuns => ~test_running]_vars


(***************************************************************************)
(* The buffer clears at the start of a run.                                *)
(***************************************************************************)
\* a worker of run r performs its start-of-run _clear_serial_buffers
StartClear(r) ==
    \/ sender[r].pc = "start" /\ sender[r].pc' = "loop"
    \/ \E i \in Receivers :
          receiver[r][i].pc = "start" /\ receiver[r][i].pc' = "poll"

\* C36: every start-of-run buffer clear of a worker of a run is performed
\* before the sender of that run has written its first frame, and discards
\* no frame waiting at a receive port.
C36_ClearsBeforeFirstFrame ==
    [][\A r \in Runs :
          StartClear(r) =>
              /\ sender[r].sequence = 0
              /\ \A i \in Receivers : in_waiting[i] = << >>]_vars



(***************************************************************************)
(* The summary that stop_test logs.  After the final statistics stop_test  *)
(* locks stats_mutex a second time and writes the summary; the elapsed     *)
(* time and the three rates are formatted with two decimals.  Each key is  *)
(* in the dictionary from construction on, so the default of .get is never *)
(* used, and the format of None raises TypeError.  stop_test has no        *)
(* handler: the error leaves it with stats_mutex still locked.  SpecStop   *)
(* follows the engine up to such an error.                                 *)
(***************************************************************************)
\* a figure of the summary is None
LogRaises(st) ==
    \/ st.elapsed_time = None
    \/ st.send_rate_bps = NoRate
    \/ st.data_rate_total_bps = NoRate
    \/ st.data_rate_valid_bps = NoRate

\* the entries written before the format of the elapsed time or a rate
StopLogBegun == << "Test stopped", "=== Test Statistics ===" >>

\* stop_test from its first stats_mutex.lock() to its end
FinalizeAndLog ==
    /\ main.pc = "join_monitor"
    /\ MonitorJoinReturns
    /\ stats' = FinalStats(stats)
    /\ receiver_stats' = update_receiver_figures(stats', receiver_stats)
    /\ main' = IdleMain
    /\ IF LogRaises(stats')
       THEN /\ stop_log' = StopLogBegun
            /\ locks' = [locks EXCEPT !.stats_mutex = "gui"]
            /\ lastCall' = "stop_raised"
            /\ UNCHANGED reported_corrupt
       ELSE /\ stop_log' = StopLogEntries
            /\ reported_corrupt' = corrupt_percent(stats')
            /\ lastCall' = "stop_final"
            /\ UNCHANGED locks
    /\ UNCHANGED << now, run, engineFields, handles, workers, channels,
                    pending_stops, captured_end, deadline_seen, late_frame,
                    drain_missed, user_stop, port_errors,
                    script, feed, codec, qt, tk >>

NextStop ==
    /\ locks.stats_mutex = "free"
    /\ \/ \E c \in Configs : start_test(c)
       \/ stop_test
       \/ stop_test_timer
       \/ JoinSender
       \/ JoinReceiver
       \/ FinalizeAndLog
       \/ \E r \in Runs :
             \/ SenderStart(r)
             \/ SenderExit(r)
             \/ SenderSleep(r)
             \/ SenderWrite(r)
             \/ MonitorExit(r)
             \/ MonitorTargetReached(r)
             \/ MonitorOpensDrain(r)
             \/ MonitorDeadline(r)
             \/ MonitorDrainWake(r)
             \/ MonitorProbeWake(r)
       \/ \E r \in Runs : \E i \in Receivers :
             \/ ReceiverStart(r, i)
             \/ ReceiverExit(r, i)
             \/ ReceiverRead(r, i)
             \/ ReceiverProcess(r, i)
       \/ \E i \in Receivers : Deliver(i)
       \/ Tick

SpecStop == InitPace /\ [][NextStop]_vars

\* stop_test has just ended, by a return or by an error
StopEnded == main.pc = "idle" /\ lastCall \in {"stop_final", "stop_raised"}

\* C37: every path through stop_test that locks stats_mutex unlocks it
\* before stop_test returns or fails, and stop_test returns normally; this
\* includes the stop_test of an engine that never ran, which also leaves
\* every counter at zero.
C37_StopReleasesMutex ==
    StopEnded =>
        /\ locks.stats_mutex = "free"
        /\ lastCall = "stop_final"
        /\ stats.start_time = None =>
              /\ stats.packets_sent = 0
              /\ stats.packets_received = 0
              /\ stats.bytes_sent = 0



(***************************************************************************)
(* The send counters.                                                      *)
(***************************************************************************)
\* C38: during a run, outside the critical sections of stats_mutex,
\* packets_sent is the number of frames the run's sender has written (its
\* next sequence number) and bytes_sent is packets_sent times the total
\* packet size of the run; a write that fails changes neither counter.
C38_SentCountersMatchWrites ==
    (test_running /\ run > 0 /\ sender[run].pc \in {"loop", "sleep"}) =>
        /\ stats.packets_sent = sender[run].sequence
        /\ stats.bytes_sent = stats.packets_sent * sender[run].cfg.total_size



(***************************************************************************)
(* The times stored by a finalized run.                                    *)
(***************************************************************************)
\* C39: once stop_test has finalized a run, the stored elapsed_time is the
\* stored end_time minus the stored start_time.
C39_ElapsedIsEndMinusStart ==
    (Finalized /\ lastCall = "stop_final") =>
        stats.elapsed_time = stats.end_time - stats.start_time

=============================================================================
